---- MODULE Spec2Model ----
(***************************************************************************)
(* news-alpha: the daily backtest stage (src/src/50_train_backtest.py),    *)
(* the recompute stage (src/src/55_recompute_sector_stats.py), the rebuild *)
(* stage (src/src/64_rebuild_sector_daily.py), the significance stage      *)
(* (src/src/65_stats_tests.py) and the sector-stats verifier               *)
(* (src/verify_results.py).                                                *)
(*                                                                         *)
(* Numbers.  A float is modelled by an exact rational [n, d] in lowest     *)
(* terms with d > 0; the three IEEE specials keep d = 0: NaN is [0, 0],    *)
(* +inf is [1, 0] and -inf is [-1, 0].  Rounding error is not modelled.    *)
(* A value that is a square root of a rational (a standard deviation, a    *)
(* Sharpe ratio, a t statistic) is kept as its sign and its square.        *)
(*                                                                         *)
(* Dates.  A date is a day number; day 0 falls on weekday FirstWeekday and  *)
(* Weekday(date) is the day of the week (0..4 Monday..Friday, 5 Saturday,  *)
(* 6 Sunday).  Dates are midnight-normalised: src/src/40_make_features.py  *)
(* line 60 takes .dt.date.  SpecTimed alone runs main() on timestamps that *)
(* carry a time of day (StampOf), which line 103 of 50_train_backtest.py   *)
(* leaves in place.  SpecPipeline chains stages 50, 55 and 64 on one disk. *)
(***************************************************************************)
EXTENDS Integers, Sequences, FiniteSets, TLC

VARIABLES
    \* bh_fdr (65_stats_tests.py): argument, argsort result, return value
    pvals, order, q_adj, bh_pc,
    \* compute_daily_metrics (50_train_backtest.py): argument, return value
    daily_returns, metrics, dm_pc,
    \* one_sample_tstats (65_stats_tests.py): argument, return value
    ost_x, ost_res, ost_pc,
    \* main() of 50_train_backtest.py: the place in main, the loop variables,
    \* the tables it builds and the files of DATA_DIR
    pc, d, g, daily_rows, picks_rows, equity_df, pm, sec_df, sector_stats, disk,
    \* the selection loop run twice on one prediction table: the table, the
    \* number of the run, the rows of the first run
    test, run, first_run,
    \* the stages that read the files of the backtest (65_stats_tests.py,
    \* 64_rebuild_sector_daily.py, 55_recompute_sector_stats.py): the place
    \* in the stage, the tables of the significance stage, and for each file
    \* of DATA_DIR the stages that have read it and the stages that have
    \* written it
    stage_pc, datasets, access

bhVars == <<pvals, order, q_adj, bh_pc>>

dmVars == <<daily_returns, metrics, dm_pc>>

ostVars == <<ost_x, ost_res, ost_pc>>

mainVars == <<pc, d, g, daily_rows, picks_rows, equity_df, pm, sec_df, sector_stats, disk>>

rerunVars == <<test, run, first_run>>

stageVars == <<stage_pc, datasets, access>>

vars == <<bhVars, dmVars, ostVars, mainVars, rerunVars, stageVars>>

----------------------------------------------------------------------------
(* Exact arithmetic on float stand-ins *)

Abs(i) == IF i < 0 THEN -i ELSE i

Sgn(i) == IF i < 0 THEN -1 ELSE IF i > 0 THEN 1 ELSE 0

RECURSIVE GCD(_, _)
GCD(a, b) == IF b = 0 THEN a ELSE GCD(b, a % b)

NaN == [n |-> 0, d |-> 0]

Inf(s) == [n |-> s, d |-> 0]

Rat(num, den) ==
    IF den = 0 THEN [n |-> Sgn(num), d |-> 0]
    ELSE LET k == GCD(Abs(num), Abs(den))
             s == Sgn(den)
         IN  [n |-> s * (num \div k), d |-> s * (den \div k)]

Whole(i) == [n |-> i, d |-> 1]

IsNaN(a) == a.n = 0 /\ a.d = 0

IsFinite(a) == a.d > 0

\* IEEE comparisons: every comparison with a NaN is false.
RLt(a, b) ==
    /\ ~IsNaN(a) /\ ~IsNaN(b)
    /\ IF a.d > 0 /\ b.d > 0
       THEN LET k == GCD(a.d, b.d) IN a.n * (b.d \div k) < b.n * (a.d \div k)
       ELSE IF a.d = 0 THEN a.n < 0 /\ b # a
       ELSE b.n > 0

REq(a, b) == ~IsNaN(a) /\ ~IsNaN(b) /\ a = b

RLe(a, b) == RLt(a, b) \/ REq(a, b)

RNeg(a) == [n |-> -a.n, d |-> a.d]

RAdd(a, b) ==
    IF IsNaN(a) \/ IsNaN(b) THEN NaN
    ELSE IF a.d = 0 /\ b.d = 0 THEN (IF a.n = b.n THEN a ELSE NaN)
    ELSE IF a.d = 0 THEN a
    ELSE IF b.d = 0 THEN b
    ELSE LET l == (a.d \div GCD(a.d, b.d)) * b.d
         IN  Rat(a.n * (l \div a.d) + b.n * (l \div b.d), l)

RSub(a, b) == RAdd(a, RNeg(b))

RMul(a, b) ==
    IF IsNaN(a) \/ IsNaN(b) THEN NaN
    ELSE IF a.d = 0 \/ b.d = 0
         THEN (IF a.n = 0 \/ b.n = 0 THEN NaN ELSE Inf(Sgn(a.n) * Sgn(b.n)))
    ELSE LET g1 == GCD(Abs(a.n), b.d)
             g2 == GCD(Abs(b.n), a.d)
         IN  Rat((a.n \div g1) * (b.n \div g2), (a.d \div g2) * (b.d \div g1))

\* Float division: x/0 is an infinity, 0/0 and inf/inf are NaN.
RDiv(a, b) ==
    IF IsNaN(a) \/ IsNaN(b) THEN NaN
    ELSE IF a.d = 0 /\ b.d = 0 THEN NaN
    ELSE IF b.d = 0 THEN Whole(0)
    ELSE IF a.d = 0 THEN Inf(a.n * (IF b.n < 0 THEN -1 ELSE 1))
    ELSE IF b.n = 0 THEN (IF a.n = 0 THEN NaN ELSE Inf(Sgn(a.n)))
    ELSE RMul(a, Rat(b.d, b.n))

\* np.minimum: a NaN operand gives NaN.
NpMinimum(a, b) == IF IsNaN(a) THEN a ELSE IF IsNaN(b) THEN b ELSE IF RLt(b, a) THEN b ELSE a

\* np.maximum, likewise.
NpMaximum(a, b) == IF IsNaN(a) THEN a ELSE IF IsNaN(b) THEN b ELSE IF RLt(a, b) THEN b ELSE a

Reverse(s) == [i \in 1..Len(s) |-> s[Len(s) + 1 - i]]

Range(s) == {s[i] : i \in 1..Len(s)}

RECURSIVE SeqsUpTo(_, _)
SeqsUpTo(S, k) ==
    IF k = 0 THEN {<<>>}
    ELSE LET prev == SeqsUpTo(S, k - 1)
         IN  prev \cup {Append(s, x) : s \in {t \in prev : Len(t) = k - 1}, x \in S}

\* The order numpy sorts floats in: ascending, NaN last.
NpLe(a, b) == IsNaN(b) \/ (~IsNaN(a) /\ RLe(a, b))

Perms(k) == {f \in [1..k -> 1..k] : \A i, j \in 1..k : i # j => f[i] # f[j]}

----------------------------------------------------------------------------
(* bh_fdr: src/src/65_stats_tests.py:24-37 *)

\* Longest p-value vector tried.
MaxN == 3

\* p-values are the multiples of 1/PDen in [0, 1], and NaN (an undefined p).
PDen == 4

PValues == {Rat(k, PDen) : k \in 0..PDen} \cup {NaN}

\* np.argsort(p): a permutation that sorts p ascending, NaN last.  The default
\* kind is not stable, so equal p-values may come in either order.
\* The p-values of the worked example of the documentation.
ScenarioPValues == <<Rat(1, 100), Rat(4, 100), Rat(3, 100), Rat(20, 100)>>

Argsorts(p) ==
    {f \in Perms(Len(p)) : \A i \in 1..(Len(p) - 1) : NpLe(p[f[i]], p[f[i + 1]])}

\* ranked[order] = np.arange(1, n + 1)
Ranked(ord) == [i \in 1..Len(ord) |-> CHOOSE k \in 1..Len(ord) : ord[k] = i]

\* q = p * n / ranked
RawQ(p, ord) ==
    [i \in 1..Len(p) |-> RDiv(RMul(p[i], Whole(Len(p))), Whole(Ranked(ord)[i]))]

\* np.sort(q): the values of q in ascending order, NaN last.
NpSort(q) ==
    LET f == CHOOSE f \in Perms(Len(q)) :
                 \A i \in 1..(Len(q) - 1) : NpLe(q[f[i]], q[f[i + 1]])
    IN  [i \in 1..Len(q) |-> q[f[i]]]

\* np.minimum.accumulate
RECURSIVE MinimumAccumulate(_)
MinimumAccumulate(s) ==
    IF Len(s) <= 1 THEN s
    ELSE LET front == MinimumAccumulate(SubSeq(s, 1, Len(s) - 1))
         IN  Append(front, NpMinimum(front[Len(front)], s[Len(s)]))

\* q_sorted = np.minimum.accumulate(np.sort(q)[::-1])[::-1]
QSorted(q) == Reverse(MinimumAccumulate(Reverse(NpSort(q))))

\* A clip that bounds from below only.
NpClipLow(x, lo, hi) == NpMaximum(x, lo)

\* np.clip(x, lo, hi) = minimum(maximum(x, lo), hi)
NpClip(x, lo, hi) == NpMinimum(NpMaximum(x, lo), hi)

\* q_adj[order] = q_sorted, then clipped to [0, 1]; an empty input gives an
\* empty result.
bh_fdr(p, ord) ==
    IF p = <<>> THEN <<>>
    ELSE LET qs == QSorted(RawQ(p, ord))
         IN  [i \in 1..Len(p) |-> NpClip(qs[Ranked(ord)[i]], Whole(0), Whole(1))]

----------------------------------------------------------------------------
(* compute_daily_metrics: src/src/50_train_backtest.py:12-43 *)

\* Longest return series tried by the specification of compute_daily_metrics.
MaxLen == 3

\* An entry that is no number (a text cell).
NonNumeric == [text |-> "n/a"]

\* Daily returns tried there: from a loss of twice the stake to a doubling.
ReturnValues == {Rat(k, 2) : k \in -4..2} \cup {NaN, NonNumeric}

\* The five-day series of the worked example of the documentation.
ScenarioReturns == <<Rat(1, 100), Rat(-2, 100), Whole(0), Rat(3, 100), Whole(0)>>

\* The entries built for a list or a column, in their order.
Rows(built) == <<>> \o built

\* The sum of s[lo..hi], taken by halves.
RECURSIVE RSumOver(_, _, _)
RSumOver(s, lo, hi) ==
    IF lo > hi THEN Whole(0)
    ELSE IF lo = hi THEN s[lo]
    ELSE RAdd(RSumOver(s, lo, (lo + hi) \div 2), RSumOver(s, (lo + hi) \div 2 + 1, hi))

RSum(s) == RSumOver(s, 1, Len(s))

\* pd.to_numeric(errors="coerce") on one entry: what is no number becomes NaN.
ToNumeric(x) == IF "text" \in DOMAIN x THEN NaN ELSE x

\* A coercion that drops the missing entries.
CoerceDrop(s) == SelectSeq(s, LAMBDA x : ~IsNaN(ToNumeric(x)))

\* pd.to_numeric(errors="coerce").fillna(0.0): a missing or non-numeric entry
\* becomes 0.0 and stays in the series.
Coerce(s) ==
    Rows([i \in 1..Len(s) |-> IF IsNaN(ToNumeric(s[i])) THEN Whole(0) ELSE s[i]])

\* r.mean(); 0/0 = NaN for an empty series.
Mean(r) == RDiv(RSum(r), Whole(Len(r)))

\* r.std(ddof=1) squared: sum((x - mean)^2) / (n - 1), NaN for n <= 1.
Variance(r) ==
    LET mu == Mean(r)
        dev == Rows([i \in 1..Len(r) |-> RMul(RSub(r[i], mu), RSub(r[i], mu))])
    IN  IF Len(r) = 0 THEN NaN ELSE RDiv(RSum(dev), Whole(Len(r) - 1))

\* A real kept as its sign and its square (sq is NaN for an undefined value).
Root(sgn, sq) == [sgn |-> IF IsNaN(sq) THEN 0 ELSE sgn, sq |-> sq]

RootNaN == Root(0, NaN)

RootIsNaN(x) == IsNaN(x.sq)

\* (1.0 + r).cumprod()
\* The product of 1 + r[lo..hi], taken by halves.
RECURSIVE ProdOver(_, _, _)
ProdOver(r, lo, hi) ==
    IF lo > hi THEN Whole(1)
    ELSE IF lo = hi THEN RAdd(Whole(1), r[lo])
    ELSE RMul(ProdOver(r, lo, (lo + hi) \div 2), ProdOver(r, (lo + hi) \div 2 + 1, hi))

CumProd(r) == Rows([i \in 1..Len(r) |-> ProdOver(r, 1, i)])

\* equity.cummax()
\* The largest of e[lo..hi] for lo <= hi, taken by halves.
RECURSIVE MaxOver(_, _, _)
MaxOver(e, lo, hi) ==
    IF lo = hi THEN e[lo]
    ELSE NpMaximum(MaxOver(e, lo, (lo + hi) \div 2), MaxOver(e, (lo + hi) \div 2 + 1, hi))

CumMax(e) == Rows([i \in 1..Len(e) |-> MaxOver(e, 1, i)])

\* Series.min(): NaN entries are skipped; NaN when nothing is left.
SeriesMin(s) ==
    LET kept == {i \in 1..Len(s) : ~IsNaN(s[i])}
    IN  IF kept = {} THEN NaN
        ELSE s[CHOOSE i \in kept : \A j \in kept : RLe(s[i], s[j])]

\* A drawdown measured from the starting equity of 1.
MaxDrawdownFromStart(r) ==
    LET equity == CumProd(r)
    IN  SeriesMin([i \in 1..Len(r) |-> RSub(equity[i], Whole(1))])

\* (equity / peak - 1.0).min()
MaxDrawdown(r) ==
    LET equity == CumProd(r)
        peak == CumMax(equity)
    IN  SeriesMin([i \in 1..Len(r) |-> RSub(RDiv(equity[i], peak[i]), Whole(1))])

\* Trading periods per year used by compute_daily_metrics.
PeriodsPerYear == 252

\* (1.0 + total) ** (252.0 / n) - 1.0, kept as the base and n.  A float power
\* of a negative base is NaN unless the exponent is a whole number.
GeomReturn(r) == [base |-> CumProd(r)[Len(r)], per |-> Len(r)]

GeomNaN == [base |-> NaN, per |-> 0]

GeomIsNaN(x) ==
    IsNaN(x.base) \/ (x.base.n < 0 /\ x.per > 0 /\ PeriodsPerYear % x.per # 0)

\* A Sharpe ratio divided out whatever the volatility is.
SharpeUnguarded(arith, volsq) == Root(Sgn(arith.n), RDiv(RMul(arith, arith), volsq))

\* sharpe = (ann_return_arith / ann_vol) if ann_vol > 0 else np.nan, where
\* ann_vol = sd_d * sqrt(252) is the root of 252 * variance.
Sharpe(arith, volsq) ==
    IF RLt(Whole(0), volsq) THEN Root(Sgn(arith.n), RDiv(RMul(arith, arith), volsq))
    ELSE RootNaN

\* A summary with no day and every rate at zero.
EmptyMetricsZero ==
    [ann_return_arith |-> Whole(0), ann_return_geom |-> [base |-> Whole(1), per |-> 1],
     ann_vol |-> Root(0, Whole(0)), sharpe |-> Root(0, Whole(0)),
     max_drawdown |-> Whole(0), days |-> 0, non_zero_days |-> 0]

\* The summary of an empty series (lines 15-24).
EmptyMetrics ==
    [ann_return_arith |-> NaN, ann_return_geom |-> GeomNaN,
     ann_vol |-> RootNaN, sharpe |-> RootNaN, max_drawdown |-> NaN,
     days |-> 0, non_zero_days |-> 0]

compute_daily_metrics(series) ==
    LET r == Coerce(series)
        n == Len(r)
        ann_return_arith == RMul(Mean(r), Whole(PeriodsPerYear))
        volsq == RMul(Variance(r), Whole(PeriodsPerYear))
    IN  IF n = 0
        THEN EmptyMetrics
        ELSE [ann_return_arith |-> ann_return_arith,
              ann_return_geom |-> GeomReturn(r),
              ann_vol |-> Root(Sgn(volsq.n), volsq),
              sharpe |-> Sharpe(ann_return_arith, volsq),
              max_drawdown |-> MaxDrawdown(r),
              days |-> n,
              non_zero_days |-> Cardinality({i \in 1..n : r[i] # Whole(0)})]

----------------------------------------------------------------------------
(* one_sample_tstats: src/src/65_stats_tests.py:40-53 *)

\* Largest sample tried by the specification of one_sample_tstats.
MaxSample == 4

SampleValues == {Rat(1, 100), Rat(-1, 100), Whole(0), NaN}

\* if n < 2 or sd == 0
TStatsUndefinedNoStd(n, sd2) == n < 2

TStatsUndefined(n, sd2) == n < 2 \/ REq(sd2, Whole(0))

\* p = 2 * stats.t.sf(|t|, df), kept as t^2 and df; NaN when t is, or df < 1.
TwoSidedP(t, df) == [t2 |-> t.sq, df |-> df]

TwoSidedPNaN == [t2 |-> NaN, df |-> 0]

TwoSidedPIsNaN(p) == IsNaN(p.t2) \/ p.df < 1

\* mu -/+ stats.t.ppf(0.975, df) * se, kept as the side, mu, se^2 and df.
ConfBound(side, mu, se2, df) == [side |-> side, mu |-> mu, se2 |-> se2, df |-> df]

ConfBoundNaN(side) == ConfBound(side, NaN, NaN, 0)

ConfBoundIsNaN(c) == IsNaN(c.mu) \/ IsNaN(c.se2) \/ c.df < 1

\* A bound times a positive factor k: k * (mu -/+ q * se) = k * mu -/+ q * (k * se).
ConfScaled(c, k) == [c EXCEPT !.mu = RMul(@, k), !.se2 = RMul(@, RMul(k, k))]

one_sample_tstats(x) ==
    LET r == Coerce(x)
        n == Len(r)
        mu == Mean(r)
        sd2 == Variance(r)
        se2 == RDiv(sd2, Whole(n))
        t == Root(Sgn(mu.n), RDiv(RMul(mu, mu), se2))
    IN  IF TStatsUndefined(n, sd2)
        THEN [n |-> n, mean |-> mu, std |-> Root(Sgn(sd2.n), sd2), t |-> RootNaN,
              p |-> TwoSidedPNaN, ci_lo |-> ConfBoundNaN(-1), ci_hi |-> ConfBoundNaN(1)]
        ELSE [n |-> n, mean |-> mu, std |-> Root(Sgn(sd2.n), sd2), t |-> t,
              p |-> TwoSidedP(t, n - 1),
              ci_lo |-> ConfBound(-1, mu, se2, n - 1),
              ci_hi |-> ConfBound(1, mu, se2, n - 1)]

----------------------------------------------------------------------------
(* The backtest stage, main(): src/src/50_train_backtest.py:95-322.         *)
(* The unbalanced run is modelled (args.balance_sectors only renames the    *)
(* three output files and changes the fitted probabilities, which are free  *)
(* here).  The fitted model is not modelled: p_up is any probability.       *)

ALL_SECTORS ==
    <<"Communication Services", "Consumer Discretionary", "Consumer Staples",
      "Energy", "Financials", "Healthcare", "Industrials", "Materials",
      "Real Estate", "Technology", "Utilities">>

TOP_N_PER_SECTOR == 1

COST_BPS_RT == 10

\* cost = COST_BPS_RT / 10000.0
cost == Rat(COST_BPS_RT, 10000)

\* Dates of the test window are 0 .. NumDates - 1.
NumDates == 5

\* Day of the week of date 0 (0 Monday .. 6 Sunday): a Thursday, so that the
\* window runs over a weekend.
FirstWeekday == 3

\* Most trading dates the test table holds.
MaxDays == 2

Dates == 0..(NumDates - 1)

Weekday(date) == (date + FirstWeekday) % 7

\* The universe the test rows are drawn from (12_build_universe_sp500.py): two
\* Technology names, one Energy name and the benchmark ETF, whose sector is not
\* in ALL_SECTORS.  Rows of one date come in this order.
Tickers == <<"AAPL", "MSFT", "XOM", "SPY">>

SectorOf(ticker) ==
    CASE ticker \in {"AAPL", "MSFT"} -> "Technology"
      [] ticker = "XOM" -> "Energy"
      [] OTHER -> "Benchmark"

PUpValues == {Rat(1, 4), Rat(3, 4)}

\* Forward returns of an AAPL row: net of cost, -1 and +1.
FwdValues == {Rat(-999, 1000), Rat(1001, 1000)}

\* The (p_up, fwd_ret) a row of a ticker may carry.  An MSFT row gains; an
\* Energy or benchmark row has a forward return equal to the cost.
Quotes(ticker) ==
    CASE ticker = "AAPL" -> {<<p, f>> : p \in PUpValues, f \in FwdValues}
      [] ticker = "MSFT" -> {<<p, Rat(1001, 1000)>> : p \in PUpValues}
      [] OTHER -> {<<Rat(1, 2), Rat(1, 1000)>>}

TestRow(ticker, q) ==
    [ticker |-> ticker, sector |-> SectorOf(ticker), p_up |-> q[1], fwd_ret |-> q[2]]

RECURSIVE GroupsFrom(_)
GroupsFrom(i) ==
    IF i > Len(Tickers) THEN {<<>>}
    ELSE LET rest == GroupsFrom(i + 1)
         IN  rest \cup {<<TestRow(Tickers[i], q)>> \o r : q \in Quotes(Tickers[i]), r \in rest}

\* The groups test.groupby("date") can yield: at most one row per ticker, and
\* never an empty group.
DayGroups == GroupsFrom(1) \ {<<>>}

\* g[g["sector"] == sector]
SectorData(grp, sector) == SelectSeq(grp, LAMBDA r : r.sector = sector)

RemoveAt(s, i) == SubSeq(s, 1, i - 1) \o SubSeq(s, i + 1, Len(s))

\* A selection that takes the smallest p_up instead.
FirstLargestMin(rows) ==
    CHOOSE i \in 1..Len(rows) :
        /\ \A j \in 1..Len(rows) : RLe(rows[i].p_up, rows[j].p_up)
        /\ \A j \in 1..(i - 1) : rows[j].p_up # rows[i].p_up

\* Index of the row nlargest takes first: the largest p_up, the first such row
\* on a tie (keep="first").
FirstLargest(rows) ==
    CHOOSE i \in 1..Len(rows) :
        /\ \A j \in 1..Len(rows) : RLe(rows[j].p_up, rows[i].p_up)
        /\ \A j \in 1..(i - 1) : rows[j].p_up # rows[i].p_up

\* sector_data.nlargest(n, "p_up")
RECURSIVE NLargest(_, _)
NLargest(rows, n) ==
    IF n = 0 \/ rows = <<>> THEN <<>>
    ELSE LET i == FirstLargest(rows)
         IN  <<rows[i]>> \o NLargest(RemoveAt(rows, i), n - 1)

\* top = pd.concat(sector_picks): the picks of ALL_SECTORS[i..], in that order.
RECURSIVE SectorPicks(_, _)
SectorPicks(grp, i) ==
    IF i > Len(ALL_SECTORS) THEN <<>>
    ELSE NLargest(SectorData(grp, ALL_SECTORS[i]), TOP_N_PER_SECTOR) \o SectorPicks(grp, i + 1)

\* A net return that charges the cost on every position.
NetReturnPerPosition(top) ==
    RSub(Mean([i \in 1..Len(top) |-> top[i].fwd_ret]), RMul(Whole(Len(top)), cost))

\* A net return averaged over every sector of ALL_SECTORS, the sectors
\* without a pick counting as 0.0.
NetReturnAllSectors(top) ==
    RDiv(RSum([i \in 1..Len(top) |-> RSub(top[i].fwd_ret, cost)]), Whole(Len(ALL_SECTORS)))

\* net = top["fwd_ret"].mean() - cost
NetReturn(top) == RSub(Mean([i \in 1..Len(top) |-> top[i].fwd_ret]), cost)

\* A day without picks that still pays the cost.
FlatReturnCharged == RNeg(cost)

\* The return of a day without picks.
FlatReturn == Whole(0)

\* r["fwd_ret"] - cost
PickReturn(row) == RSub(row.fwd_ret, cost)

ZeroPick(date, sector) == [date |-> date, ticker |-> "", sector |-> sector, ret |-> Whole(0)]

\* The zero picks of the sectors of ALL_SECTORS outside picked_sectors.
ZeroPicks(date, picked_sectors) ==
    LET missing == SelectSeq(ALL_SECTORS, LAMBDA s : s \notin picked_sectors)
    IN  [i \in 1..Len(missing) |-> ZeroPick(date, missing[i])]

\* The row one iteration appends to daily_rows (lines 197-202, 216-227, 238-240).
DailyRow(date, grp) ==
    LET top == SectorPicks(grp, 1)
    IN  IF grp = <<>> \/ top = <<>>
        THEN [date |-> date, ret |-> FlatReturn, selected_tickers |-> <<>>]
        ELSE [date |-> date, ret |-> NetReturn(top),
              selected_tickers |-> [i \in 1..Len(top) |-> top[i].ticker]]

\* The rows one iteration appends to picks_rows (lines 200-201, 230-237, 241-242).
PickRows(date, grp) ==
    LET top == SectorPicks(grp, 1)
        picked_sectors == {top[i].sector : i \in 1..Len(top)}
    IN  IF grp = <<>> \/ top = <<>>
        THEN ZeroPicks(date, {})
        ELSE [i \in 1..Len(top) |->
                 [date |-> date, ticker |-> top[i].ticker, sector |-> top[i].sector,
                  ret |-> PickReturn(top[i])]]
             \o ZeroPicks(date, picked_sectors)

\* pd.bdate_range(first, last): the Monday-Friday dates, ascending.
RECURSIVE BDateRange(_, _)
BDateRange(first, last) ==
    IF first > last THEN <<>>
    ELSE (IF Weekday(first) < 5 THEN <<first>> ELSE <<>>) \o BDateRange(first + 1, last)

MinDate(rows) == CHOOSE x \in {rows[i].date : i \in 1..Len(rows)} :
                     \A i \in 1..Len(rows) : x <= rows[i].date

MaxDate(rows) == CHOOSE x \in {rows[i].date : i \in 1..Len(rows)} :
                     \A i \in 1..Len(rows) : x >= rows[i].date

\* An inner merge of the calendar with daily_df: a date without a daily row
\* is dropped.
EquityMatchInner(date, daily) == SelectSeq(daily, LAMBDA r : r.date = date)

\* The rows cal.merge(daily_df, on="date", how="left") gives one calendar date:
\* every daily row of that date, or one row of nulls, which fillna turns into
\* ret 0.0 and selected_tickers "".
EquityMatch(date, daily) ==
    LET hit == SelectSeq(daily, LAMBDA r : r.date = date)
    IN  IF hit = <<>>
        THEN <<[date |-> date, ret |-> Whole(0), selected_tickers |-> <<>>]>>
        ELSE hit

RECURSIVE EquityMerge(_, _)
EquityMerge(cal, daily) ==
    IF cal = <<>> THEN <<>>
    ELSE EquityMatch(cal[1], daily) \o EquityMerge(Tail(cal), daily)

\* Lines 246-248 on a calendar: the merge, then equity = (1 + ret).cumprod()
\* and cum_ret = equity - 1.
EquityOn(cal, daily) ==
    LET merged == EquityMerge(cal, daily)
        equity == CumProd([i \in 1..Len(merged) |-> merged[i].ret])
    IN  [i \in 1..Len(merged) |->
            [date |-> merged[i].date, ret |-> merged[i].ret,
             selected_tickers |-> merged[i].selected_tickers,
             equity |-> equity[i], cum_ret |-> RSub(equity[i], Whole(1))]]

\* equity_df (lines 244-248), on the business days from the first to the last
\* date of daily_df.
EquityDf(daily) == EquityOn(BDateRange(MinDate(daily), MaxDate(daily)), daily)

Column(rows, sector) ==
    LET own == SelectSeq(rows, LAMBDA r : r.sector = sector)
    IN  [i \in 1..Len(own) |-> own[i].sec_ret]

SectorIndex(sector) == CHOOSE i \in 1..Len(ALL_SECTORS) : ALL_SECTORS[i] = sector

\* picked_df.groupby(["date", "sector"])["ret"].mean() at one key, or <<>> when
\* no pick has that key.
SecDaily(picks, date, sector) ==
    LET own == SelectSeq(picks, LAMBDA r : r.date = date /\ r.sector = sector)
    IN  IF own = <<>> THEN <<>>
        ELSE <<[date |-> date, sector |-> sector,
                sec_ret |-> Mean([i \in 1..Len(own) |-> own[i].ret])]>>

\* An inner merge of the grid with sec_daily: a cell without picks is dropped.
GridMatchInner(picks, date, sector) == SecDaily(picks, date, sector)

\* The rows the left merge of the grid with sec_daily gives one grid cell,
\* after fillna({"sec_ret": 0.0}).
GridMatch(picks, date, sector) ==
    LET hit == SecDaily(picks, date, sector)
    IN  IF hit = <<>> \/ IsNaN(hit[1].sec_ret)
        THEN <<[date |-> date, sector |-> sector, sec_ret |-> Whole(0)]>>
        ELSE hit

\* sec_df (lines 273-276): MultiIndex.from_product([all_days, ALL_SECTORS]),
\* date-major, merged with sec_daily.
RECURSIVE GridRows(_, _, _, _)
GridRows(picks, all_days, i, j) ==
    IF i > Len(all_days) THEN <<>>
    ELSE IF j > Len(ALL_SECTORS) THEN GridRows(picks, all_days, i + 1, 1)
    ELSE GridMatch(picks, all_days[i], ALL_SECTORS[j]) \o GridRows(picks, all_days, i, j + 1)

SecDf(picks, all_days) == GridRows(picks, all_days, 1, 1)

\* sector_stats_rows (lines 279-283): one summary per sector of ALL_SECTORS.
SectorStatsRows(sec) ==
    [i \in 1..Len(ALL_SECTORS) |->
        [sector |-> ALL_SECTORS[i]] @@ compute_daily_metrics(Column(sec, ALL_SECTORS[i]))]

\* Descending order of two Sharpe values, both defined.
RootGe(a, b) ==
    IF a.sgn # b.sgn THEN a.sgn > b.sgn
    ELSE IF a.sgn = 0 THEN TRUE
    ELSE IF a.sgn > 0 THEN RLe(b.sq, a.sq)
    ELSE RLe(a.sq, b.sq)

\* A ranking that puts the rows without a Sharpe first.
SortedBySharpeNaFirst(rows) ==
    LET has == SelectSeq(rows, LAMBDA r : ~RootIsNaN(r.sharpe))
        hasnot == SelectSeq(rows, LAMBDA r : RootIsNaN(r.sharpe))
    IN  {hasnot \o [i \in 1..Len(has) |-> has[f[i]]] :
            f \in {h \in Perms(Len(has)) :
                     \A i \in 1..(Len(has) - 1) :
                         RootGe(has[h[i]].sharpe, has[h[i + 1]].sharpe)}}

\* sort_values("sharpe", ascending=False): the rows with a Sharpe in
\* descending order (rows of equal Sharpe in any order: the default sort is not
\* stable), then the rows without one in their order.
SortedBySharpe(rows) ==
    LET has == SelectSeq(rows, LAMBDA r : ~RootIsNaN(r.sharpe))
        hasnot == SelectSeq(rows, LAMBDA r : RootIsNaN(r.sharpe))
    IN  {[i \in 1..Len(has) |-> has[f[i]]] \o hasnot :
            f \in {h \in Perms(Len(has)) :
                     \A i \in 1..(Len(has) - 1) :
                         RootGe(has[h[i]].sharpe, has[h[i + 1]].sharpe)}}

RootZero == Root(0, Whole(0))

\* for col in ['sharpe', 'ann_return_arith', 'ann_vol']: fillna(0.0)
FillKeyColumns(m) ==
    [m EXCEPT !.sharpe = IF RootIsNaN(@) THEN RootZero ELSE @,
              !.ann_return_arith = IF IsNaN(@) THEN Whole(0) ELSE @,
              !.ann_vol = IF RootIsNaN(@) THEN RootZero ELSE @]

FillNa(rows) == [i \in 1..Len(rows) |-> FillKeyColumns(rows[i])]

\* sec_df.sort_values(["date", "sector"]): ALL_SECTORS is in the order of the
\* sector names, so a sector sorts by its place in it.  Rows of one key keep
\* their order.
RowBefore(a, b) ==
    a.date < b.date \/ (a.date = b.date /\ SectorIndex(a.sector) < SectorIndex(b.sector))

RECURSIVE InsertRow(_, _)
InsertRow(row, sorted) ==
    IF sorted = <<>> THEN <<row>>
    ELSE IF RowBefore(sorted[1], row) THEN <<sorted[1]>> \o InsertRow(row, Tail(sorted))
    ELSE <<row>> \o sorted

RECURSIVE SortByDateSector(_)
SortByDateSector(rows) ==
    IF rows = <<>> THEN <<>>
    ELSE InsertRow(rows[1], SortByDateSector(Tail(rows)))

\* A file of DATA_DIR: absent, or the table written to it.
NoFile == [exists |-> FALSE, rows |-> <<>>]

File(rows) == [exists |-> TRUE, rows |-> rows]

\* df.isnull().sum().sum() of a sector-stats file.
NanCount(rows) ==
    Cardinality({<<i, c>> \in (1..Len(rows)) \X (1..5) :
        CASE c = 1 -> IsNaN(rows[i].ann_return_arith)
          [] c = 2 -> GeomIsNaN(rows[i].ann_return_geom)
          [] c = 3 -> RootIsNaN(rows[i].ann_vol)
          [] c = 4 -> RootIsNaN(rows[i].sharpe)
          [] OTHER -> IsNaN(rows[i].max_drawdown)})

\* verify_file: src/verify_results.py:13-72
verify_file(file) ==
    /\ file.exists
    /\ Len(file.rows) = Len(ALL_SECTORS)
    /\ Range(ALL_SECTORS) \ {file.rows[i].sector : i \in 1..Len(file.rows)} = {}
    /\ NanCount(file.rows) = 0

----------------------------------------------------------------------------
(* The significance stage: src/src/65_stats_tests.py.                       *)
(* stats.t.sf and stats.ttest_ind are outside the model: a p-value is NaN   *)
(* when the statistic is, 0 when it is infinite, 1 when it is 0, and any    *)
(* of OpenPValues otherwise.                                                *)

\* ANNUALIZE = {"daily": 252.0, "weekly": 52.0}
ANNUALIZE(freq) == IF freq = "daily" THEN 252 ELSE 52

OUT_TTEST(freq) == IF freq = "daily" THEN "sector_ttest" ELSE "sector_ttest_weekly"

OUT_PAIRWISE(freq) ==
    IF freq = "daily" THEN "sector_pairwise_best_vs_rest"
    ELSE "sector_pairwise_best_vs_rest_weekly"

\* The sector names a file may hold, in the order of the names: "All" is the
\* name 64_rebuild_sector_daily.py gives when it has no sector list.
SectorNames == <<"All">> \o ALL_SECTORS

NameIndex(sector) == CHOOSE i \in 1..Len(SectorNames) : SectorNames[i] = sector

\* The keys of df.groupby("sector"), which sorts them.
GroupKeys(df) ==
    SelectSeq(SectorNames, LAMBDA s : \E i \in 1..Len(df) : df[i].sector = s)

\* The p-values a finite, non-zero statistic may get.
OpenPValues == {Rat(1, 4), Rat(1, 2)}

\* The p-value of a statistic of square t2, given the value drawn for it.
PValueOf(t2, drawn) ==
    IF IsNaN(t2) THEN NaN
    ELSE IF ~IsFinite(t2) THEN Whole(0)
    ELSE IF t2 = Whole(0) THEN Whole(1)
    ELSE drawn

\* The Friday that ends the W-FRI bin of a date: bins are closed and labelled
\* on the right, Saturday to Friday.
WeekEnd(date) == date + ((11 - Weekday(date)) % 7)

\* (1.0 + r).prod() - 1.0; prod skips NaN, and the empty product is 1.
RECURSIVE Compound(_)
Compound(r) ==
    IF r = <<>> THEN Whole(1)
    ELSE RMul(IF IsNaN(r[1]) THEN Whole(1) ELSE RAdd(Whole(1), r[1]), Compound(Tail(r)))

\* A weekly return that averages the days of the week; 0.0 for an empty week.
WeekReturnMean(own, week) ==
    LET inside == SelectSeq(own, LAMBDA r : week - 7 < r.date /\ r.date <= week)
    IN  IF inside = <<>> THEN Whole(0)
        ELSE Mean([i \in 1..Len(inside) |-> inside[i].sec_ret])

\* A weekly return that leaves out the rows dated on the Friday itself.
WeekReturnOpen(own, week) ==
    LET inside == SelectSeq(own, LAMBDA r : week - 7 < r.date /\ r.date < week)
    IN  RSub(Compound([i \in 1..Len(inside) |-> inside[i].sec_ret]), Whole(1))

\* The value resample("W-FRI").apply gives the bin of one Friday.
WeekReturn(own, week) ==
    LET inside == SelectSeq(own, LAMBDA r : week - 7 < r.date /\ r.date <= week)
    IN  RSub(Compound([i \in 1..Len(inside) |-> inside[i].sec_ret]), Whole(1))

\* The weekly rows of one sector: one bin per Friday from the bin of its
\* first date to the bin of its last date, empty bins included.
WeeksOf(df, sector) ==
    LET own == SelectSeq(df, LAMBDA r : r.sector = sector)
        lo == WeekEnd(MinDate(own))
        hi == WeekEnd(MaxDate(own))
    IN  [k \in 1..((hi - lo) \div 7 + 1) |->
            [sector |-> sector, date |-> lo + 7 * (k - 1),
             sec_ret |-> WeekReturn(own, lo + 7 * (k - 1))]]

RECURSIVE Concat(_)
Concat(seqs) == IF seqs = <<>> THEN <<>> ELSE seqs[1] \o Concat(Tail(seqs))

\* aggregate_weekly: lines 64-74
aggregate_weekly(df) ==
    LET keys == GroupKeys(df)
    IN  Concat([i \in 1..Len(keys) |-> WeeksOf(df, keys[i])])

\* Welch's t of two samples from their means, variances and sizes: the
\* difference of the means over the root of va/na + vb/nb.
WelchT(ma, va, na, mb, vb, nb) ==
    Root(Sgn(RSub(ma, mb).n),
         RDiv(RMul(RSub(ma, mb), RSub(ma, mb)),
              RAdd(RDiv(va, Whole(na)), RDiv(vb, Whole(nb)))))

TwoSample(ma, va, na, mb, vb, nb) ==
    [t |-> WelchT(ma, va, na, mb, vb, nb),
     mean_a |-> ma, mean_b |-> mb, n_a |-> na, n_b |-> nb]

\* two_sample_tstats (lines 56-61) up to the p-value.
two_sample_tstats(a, b) ==
    TwoSample(Mean(Coerce(a)), Variance(Coerce(a)), Len(a),
              Mean(Coerce(b)), Variance(Coerce(b)), Len(b))

\* A table whose rows are left in the order they were built.
UnsortedByPFdr(rows) == {rows}

\* The rows with a defined key in ascending order of it (rows of equal key in
\* any order: the default sort is not stable), then the rows without one.
SortedByPFdr(rows) ==
    LET has == SelectSeq(rows, LAMBDA r : ~IsNaN(r.p_fdr))
        hasnot == SelectSeq(rows, LAMBDA r : IsNaN(r.p_fdr))
    IN  {[i \in 1..Len(has) |-> has[f[i]]] \o hasnot :
            f \in {h \in Perms(Len(has)) :
                     \A i \in 1..(Len(has) - 1) :
                         RLe(has[h[i]].p_fdr, has[h[i + 1]].p_fdr)}}

\* rows of run_one_sample_tests (lines 78-82): the statistics of each sector,
\* in the order of the groupby keys.
OneSampleStats(df) ==
    Rows([i \in 1..Len(GroupKeys(df)) |->
             [sector |-> GroupKeys(df)[i],
              res |-> one_sample_tstats(Column(df, GroupKeys(df)[i]))]])

\* The columns of p-values a list of statistics may get.
PValuesOf(stats) ==
    {Rows([i \in 1..Len(stats) |-> PValueOf(stats[i].res.t.sq, drawn[i])]) :
        drawn \in [1..Len(stats) -> OpenPValues]}

\* A row of tt, lines 85-90.
OneSampleRow(stat, p, p_fdr, ann_factor) ==
    [sector |-> stat.sector, n |-> stat.res.n, mean |-> stat.res.mean,
     std |-> stat.res.std, t |-> stat.res.t, p |-> p,
     ci_lo |-> stat.res.ci_lo, ci_hi |-> stat.res.ci_hi,
     p_fdr |-> p_fdr,
     ann_mean_arith |-> RMul(stat.res.mean, ann_factor),
     ann_ci_lo |-> ConfScaled(stat.res.ci_lo, ann_factor),
     ann_ci_hi |-> ConfScaled(stat.res.ci_hi, ann_factor)]

OneSampleFrame(stats, p, p_fdr, freq) ==
    Rows([i \in 1..Len(stats) |->
             OneSampleRow(stats[i], p[i], p_fdr[i], Whole(ANNUALIZE(freq)))])

\* The tables run_one_sample_tests may write for a frame that is not empty:
\* any p-values, any argsort bh_fdr may take, any order the sort may give.
OneSampleTables(df, freq) ==
    UNION {UNION {UNION {SortedByPFdr(OneSampleFrame(stats, p, bh_fdr(p, ord), freq)) :
                           ord \in Argsorts(p)} :
                    p \in PValuesOf(stats)} :
             stats \in {OneSampleStats(df)}}

\* df.groupby("sector")["sec_ret"].mean(), line 98.
SectorMeans(df) ==
    Rows([i \in 1..Len(GroupKeys(df)) |->
             [sector |-> GroupKeys(df)[i], mean |-> Mean(Column(df, GroupKeys(df)[i]))]])

\* sort_values(ascending=False) of the means: the orders of the sectors by
\* descending mean, equal means in any order.
MeansOrders(df) ==
    UNION {{Rows([i \in 1..Len(means) |-> means[f[i]].sector]) :
               f \in {h \in Perms(Len(means)) :
                        \A i \in 1..(Len(means) - 1) :
                            RLe(means[h[i + 1]].mean, means[h[i]].mean)}} :
             means \in {SectorMeans(df)}}

\* A comparison list that keeps the best sector in it.
OthersOfAll(means) == means

\* means.index[1:]
OthersOf(means) == Tail(means)

\* rows of run_pairwise_tests (lines 103-120) for one order of the means: the
\* best sector against each of the others.
PairwiseStats(df, means) ==
    Rows([i \in 1..Len(OthersOf(means)) |->
             [best |-> means[1], other |-> OthersOf(means)[i],
              res |-> two_sample_tstats(Column(df, means[1]),
                                        Column(df, OthersOf(means)[i]))]])

\* A row of pw, lines 123-127.
PairwiseRow(stat, p, p_fdr, ann_factor) ==
    [best |-> stat.best, other |-> stat.other, t |-> stat.res.t, p |-> p,
     mean_best |-> stat.res.mean_a, mean_other |-> stat.res.mean_b,
     n_best |-> stat.res.n_a, n_other |-> stat.res.n_b,
     p_fdr |-> p_fdr,
     ann_mean_best |-> RMul(stat.res.mean_a, ann_factor),
     ann_mean_other |-> RMul(stat.res.mean_b, ann_factor)]

PairwiseFrame(stats, p, p_fdr, freq) ==
    Rows([i \in 1..Len(stats) |->
             PairwiseRow(stats[i], p[i], p_fdr[i], Whole(ANNUALIZE(freq)))])

\* The tables run_pairwise_tests may write for a frame of two sectors or more.
PairwiseTables(df, freq) ==
    UNION {UNION {UNION {SortedByPFdr(PairwiseFrame(stats, p, bh_fdr(p, ord), freq)) :
                           ord \in Argsorts(p)} :
                    p \in PValuesOf(stats)} :
             stats \in {PairwiseStats(df, means) : means \in MeansOrders(df)}}

\* df.sort_values(["date", "sector"]) of main, line 148.
FrameBefore(a, b) ==
    a.date < b.date \/ (a.date = b.date /\ NameIndex(a.sector) < NameIndex(b.sector))

RECURSIVE InsertFrameRow(_, _)
InsertFrameRow(row, sorted) ==
    IF sorted = <<>> THEN <<row>>
    ELSE IF FrameBefore(sorted[1], row)
         THEN <<sorted[1]>> \o InsertFrameRow(row, Tail(sorted))
         ELSE <<row>> \o sorted

RECURSIVE SortFrame(_)
SortFrame(rows) ==
    IF rows = <<>> THEN <<>>
    ELSE InsertFrameRow(rows[1], SortFrame(Tail(rows)))

\* The sectors of the files of sector daily returns tried.
SigSectors == <<"Energy", "Technology", "Utilities">>

DayRet(date, ret) == [date |-> date, sec_ret |-> ret]

\* The rows a sector may have in such a file.  Energy: three rows over a
\* weekend, or one row.  Technology: none, two rows of mean zero out of date
\* order, or two rows of no variance whose mean is that of Energy.  Utilities:
\* none, or rows of the first and of a later week with empty weeks between.
SigProfiles(i) ==
    CASE i = 1 -> {<<DayRet(1, Rat(1, 2)), DayRet(2, Whole(1)), DayRet(4, Whole(0))>>,
                   <<DayRet(1, Rat(1, 2))>>}
      [] i = 2 -> {<<>>,
                   <<DayRet(4, Rat(-1, 2)), DayRet(1, Rat(1, 2))>>,
                   <<DayRet(1, Rat(1, 2)), DayRet(4, Rat(1, 2))>>}
      [] i = 3 -> {<<>>,
                   <<DayRet(1, Rat(1, 2)), DayRet(16, Whole(0))>>}

\* The files of sector daily returns tried: each sector with one of its
\* profiles, one sector after the other.
SigInputs ==
    {Concat([i \in 1..Len(SigSectors) |->
                [k \in 1..Len(prof[i]) |->
                    [date |-> prof[i][k].date, sector |-> SigSectors[i],
                     sec_ret |-> prof[i][k].sec_ret]]]) :
        prof \in {q \in [1..Len(SigSectors) -> UNION {SigProfiles(i) : i \in 1..Len(SigSectors)}] :
                     \A i \in 1..Len(SigSectors) : q[i] \in SigProfiles(i)}}

----------------------------------------------------------------------------
(* The rebuild stage: src/src/64_rebuild_sector_daily.py *)

\* The values of a column in the order of their first appearance.
RECURSIVE UniqueInOrder(_)
UniqueInOrder(s) ==
    IF s = <<>> THEN <<>>
    ELSE LET front == UniqueInOrder(SubSeq(s, 1, Len(s) - 1))
         IN  IF \E i \in 1..Len(front) : front[i] = s[Len(s)]
             THEN front ELSE Append(front, s[Len(s)])

\* eq of lines 19-22 under one sector name: date, sector, sec_ret of every row
\* of the equity curve.
EqAs(eq, sector) ==
    [i \in 1..Len(eq) |-> [date |-> eq[i].date, sector |-> sector, sec_ret |-> eq[i].ret]]

\* sec_df of lines 24-35 for an equity curve and the sector names read.
RebuildFrame(eq, sectors) ==
    LET whole == Concat([i \in 1..Len(sectors) |-> EqAs(eq, sectors[i])])
    IN  SelectSeq(whole, LAMBDA r : ~IsNaN(r.sec_ret))

----------------------------------------------------------------------------
(* The recompute stage: src/src/55_recompute_sector_stats.py *)

min_days == 30

\* sector_data.groupby('date')['fwd_ret'].mean() merged on the calendar and
\* filled with 0.0 (lines 88-101): the column of one sector.
SectorReturns(test_data, business_days, sector) ==
    [i \in 1..Len(business_days) |->
        LET own == SelectSeq(test_data,
                       LAMBDA r : r.sector = sector /\ r.date = business_days[i])
            known == SelectSeq(own, LAMBDA r : ~IsNaN(r.fwd_ret))
        IN  IF known = <<>> THEN Whole(0)
            ELSE Mean([k \in 1..Len(known) |-> known[k].fwd_ret])]

\* The record appended for one sector, lines 118-127.
RecomputedRow(sector, m) ==
    [sector |-> sector,
     annualized_return_arith |-> m.ann_return_arith,
     annualized_return_geom |-> m.ann_return_geom,
     annualized_vol |-> m.ann_vol,
     sharpe_ratio |-> m.sharpe,
     max_drawdown |-> m.max_drawdown,
     days |-> m.days,
     non_zero_days |-> m.non_zero_days]

\* The tables main may write (lines 53-145) for an equity curve that is not
\* empty: a row per sector of the test period when the calendar has min_days
\* days, sorted by sharpe_ratio from the largest down.
RecomputedTables(equity, training) ==
    LET test_start == MinDate(equity)
        test_end == MaxDate(equity)
        test_data == SelectSeq(training,
                         LAMBDA r : r.date >= test_start /\ r.date <= test_end)
        business_days == BDateRange(test_start, test_end)
        sectors == UniqueInOrder([i \in 1..Len(test_data) |-> test_data[i].sector])
        kept == IF Len(business_days) >= min_days THEN sectors ELSE <<>>
        rows == Rows([i \in 1..Len(kept) |->
                         [sector |-> kept[i]]
                         @@ compute_daily_metrics(SectorReturns(test_data, business_days, kept[i]))])
    IN  {[i \in 1..Len(sorted) |-> RecomputedRow(sorted[i].sector, sorted[i])] :
            sorted \in SortedBySharpe(rows)}

----------------------------------------------------------------------------
(* State machines *)

NoMetrics == [days |-> -1]

IdleBH == pvals = <<>> /\ order = <<>> /\ q_adj = <<>> /\ bh_pc = "idle"

IdleDM == daily_returns = <<>> /\ metrics = NoMetrics /\ dm_pc = "idle"

NoResult == [n |-> -1]

IdleOST == ost_x = <<>> /\ ost_res = NoResult /\ ost_pc = "idle"

NoDate == -1

\* The files of DATA_DIR the stages read and write.
Files ==
    {"equity_curve", "sector_stats", "sector_daily_returns", "training_data",
     "sector_ttest", "sector_ttest_weekly",
     "sector_pairwise_best_vs_rest", "sector_pairwise_best_vs_rest_weekly"}

EmptyDisk == [f \in Files |-> NoFile]

MainStart(at) ==
    /\ pc = at
    /\ d = NoDate /\ g = <<>>
    /\ daily_rows = <<>> /\ picks_rows = <<>>
    /\ equity_df = <<>> /\ pm = NoMetrics
    /\ sec_df = <<>> /\ sector_stats = <<>>
    /\ disk = EmptyDisk

IdleMain == MainStart("idle")

NoRun == [daily |-> <<>>, picks |-> <<>>]

IdleRerun == test = <<>> /\ run = 0 /\ first_run = NoRun

\* Where a stage run on its own stands: the stage, the step, and the frequency
\* the significance stage is at.
At(stage, step, freq) == [stage |-> stage, step |-> step, freq |-> freq]

\* No stage has read or written a file yet.
NoAccess == [f \in Files |-> [readers |-> {}, writers |-> {}]]

\* The record of the files after a stage has read those of one set and written
\* those of another.
Accessed(acc, stage, read, written) ==
    [f \in Files |->
        [readers |-> IF f \in read THEN acc[f].readers \cup {stage} ELSE acc[f].readers,
         writers |-> IF f \in written THEN acc[f].writers \cup {stage} ELSE acc[f].writers]]

IdleStages == stage_pc = At("none", "idle", "none") /\ datasets = <<>> /\ access = NoAccess

InitBH ==
    /\ pvals \in SeqsUpTo(PValues, MaxN) \cup {ScenarioPValues}
    /\ order = <<>>
    /\ q_adj = <<>>
    /\ bh_pc = "call"
    /\ IdleDM
    /\ IdleOST
    /\ IdleMain
    /\ IdleRerun
    /\ IdleStages

BhFdr ==
    /\ bh_pc = "call"
    /\ \E ord \in Argsorts(pvals) :
          /\ order' = ord
          /\ q_adj' = bh_fdr(pvals, ord)
    /\ bh_pc' = "done"
    /\ UNCHANGED <<pvals, dmVars, ostVars, mainVars, rerunVars, stageVars>>

NextBH == BhFdr

SpecBH == InitBH /\ [][NextBH]_vars

InitDM ==
    /\ daily_returns \in SeqsUpTo(ReturnValues, MaxLen) \cup {ScenarioReturns}
    /\ metrics = NoMetrics
    /\ dm_pc = "call"
    /\ IdleBH
    /\ IdleOST
    /\ IdleMain
    /\ IdleRerun
    /\ IdleStages

ComputeDailyMetrics ==
    /\ dm_pc = "call"
    /\ metrics' = compute_daily_metrics(daily_returns)
    /\ dm_pc' = "done"
    /\ UNCHANGED <<daily_returns, bhVars, ostVars, mainVars, rerunVars, stageVars>>

NextDM == ComputeDailyMetrics

SpecDM == InitDM /\ [][NextDM]_vars

InitOST ==
    /\ ost_x \in SeqsUpTo(SampleValues, MaxSample)
    /\ ost_res = NoResult
    /\ ost_pc = "call"
    /\ IdleBH
    /\ IdleDM
    /\ IdleMain
    /\ IdleRerun
    /\ IdleStages

OneSampleTStats ==
    /\ ost_pc = "call"
    /\ ost_res' = one_sample_tstats(ost_x)
    /\ ost_pc' = "done"
    /\ UNCHANGED <<ost_x, bhVars, dmVars, mainVars, rerunVars, stageVars>>

NextOST == OneSampleTStats

SpecOST == InitOST /\ [][NextOST]_vars

\* main() starts at the selection loop: the test table holds at least one
\* date (the fit and predict calls above the loop fail on an empty table), and
\* its groups come while the loop runs.
Init ==
    /\ MainStart("loop")
    /\ IdleBH
    /\ IdleDM
    /\ IdleOST
    /\ IdleRerun
    /\ IdleStages

pureVars == <<bhVars, dmVars, ostVars>>

otherVars == <<pureVars, rerunVars, stageVars>>

\* The header of "for d, g in test.groupby("date", sort=True)" (line 196):
\* the next date, later than the last one, and its group.
NextGroup ==
    /\ pc = "loop"
    /\ Len(daily_rows) < MaxDays
    /\ \E date \in Dates, grp \in DayGroups :
          /\ date > d
          /\ d' = date
          /\ g' = grp
    /\ pc' = "body"
    /\ UNCHANGED <<daily_rows, picks_rows, equity_df, pm, sec_df, sector_stats, disk, otherVars>>

\* The body of the loop (lines 197-242).  The group is not read after the
\* body, and is dropped with it.
SelectDay ==
    /\ pc = "body"
    /\ daily_rows' = Append(daily_rows, DailyRow(d, g))
    /\ picks_rows' = picks_rows \o PickRows(d, g)
    /\ g' = <<>>
    /\ pc' = "loop"
    /\ UNCHANGED <<d, equity_df, pm, sec_df, sector_stats, disk, otherVars>>

\* The loop ends; lines 244-251 build equity_df on the business-day calendar
\* and the portfolio metrics.
Calendarize ==
    /\ pc = "loop"
    /\ daily_rows # <<>>
    /\ equity_df' = EquityDf(daily_rows)
    /\ pm' = compute_daily_metrics([i \in 1..Len(equity_df') |-> equity_df'[i].ret])
    /\ pc' = "sector"
    /\ UNCHANGED <<d, g, daily_rows, picks_rows, sec_df, sector_stats, disk, otherVars>>

\* Lines 262-289.  pd.bdate_range raises on the NaT bounds of an empty
\* equity_df, which ends the run.
SectorAggregate ==
    /\ pc = "sector"
    /\ IF equity_df = <<>>
       THEN /\ pc' = "aborted"
            /\ UNCHANGED <<sec_df, sector_stats>>
       ELSE LET all_days == BDateRange(MinDate(equity_df), MaxDate(equity_df))
            IN  /\ pc' = "rank"
                /\ IF picks_rows # <<>>
                   THEN /\ sec_df' = SecDf(picks_rows, all_days)
                        /\ sector_stats' = SectorStatsRows(sec_df')
                   ELSE /\ sec_df' = sec_df
                        /\ sector_stats' =
                              [i \in 1..Len(ALL_SECTORS) |->
                                  [sector |-> ALL_SECTORS[i]]
                                  @@ compute_daily_metrics([k \in 1..Len(all_days) |-> Whole(0)])]
    /\ UNCHANGED <<d, g, daily_rows, picks_rows, equity_df, pm, disk, otherVars>>

\* Lines 291-302: the ranking, the sector-count assertion and the fillna of
\* the key columns.
RankSectorStats ==
    /\ pc = "rank"
    /\ \E sorted \in SortedBySharpe(sector_stats) :
          IF Len(sorted) = Len(ALL_SECTORS)
          THEN sector_stats' = FillNa(sorted) /\ pc' = "save"
          ELSE sector_stats' = sorted /\ pc' = "aborted"
    /\ UNCHANGED <<d, g, daily_rows, picks_rows, equity_df, pm, sec_df, disk, otherVars>>

\* The files of the backtest written while the ranking is still to come.
SaveEarly ==
    /\ pc \in {"rank", "save"}
    /\ sec_df' = IF picks_rows # <<>> THEN SortByDateSector(sec_df) ELSE sec_df
    /\ disk' = [disk EXCEPT !.equity_curve = File(equity_df),
                            !.sector_stats = File(sector_stats),
                            !.sector_daily_returns =
                                IF picks_rows # <<>> THEN File(sec_df') ELSE @]
    /\ access' = Accessed(access, "backtest", {},
                          {"equity_curve", "sector_stats"}
                              \cup (IF picks_rows # <<>> THEN {"sector_daily_returns"} ELSE {}))
    /\ pc' = IF pc = "save" THEN "done" ELSE pc
    /\ UNCHANGED <<d, g, daily_rows, picks_rows, equity_df, pm, sector_stats,
                   pureVars, rerunVars, stage_pc, datasets>>

\* Lines 305-310.
Save ==
    /\ pc = "save"
    /\ sec_df' = IF picks_rows # <<>> THEN SortByDateSector(sec_df) ELSE sec_df
    /\ disk' = [disk EXCEPT !.equity_curve = File(equity_df),
                            !.sector_stats = File(sector_stats),
                            !.sector_daily_returns =
                                IF picks_rows # <<>> THEN File(sec_df') ELSE @]
    /\ access' = Accessed(access, "backtest", {},
                          {"equity_curve", "sector_stats"}
                              \cup (IF picks_rows # <<>> THEN {"sector_daily_returns"} ELSE {}))
    /\ pc' = "done"
    /\ UNCHANGED <<d, g, daily_rows, picks_rows, equity_df, pm, sector_stats,
                   pureVars, rerunVars, stage_pc, datasets>>

Next == NextGroup \/ SelectDay \/ Calendarize \/ SectorAggregate \/ RankSectorStats \/ Save

Spec == Init /\ [][Next]_vars

----------------------------------------------------------------------------
(* The selection loop of main(), run twice on one prediction table *)

\* Longest prediction table, in dates, of the two runs.
RerunDays == 2

\* The groups of such a table: rows of the sector names only.
RerunGroups == {grp \in DayGroups : \A i \in 1..Len(grp) : grp[i].sector # "Benchmark"}

\* The groups of a prediction table in the order groupby("date", sort=True)
\* yields them: the k-th group is that of date k - 1.
Tables ==
    {[k \in 1..Len(t) |-> [date |-> k - 1, grp |-> t[k]]] :
        t \in SeqsUpTo(RerunGroups, RerunDays) \ {<<>>}}

InitRerun ==
    /\ test \in Tables
    /\ run = 1
    /\ first_run = NoRun
    /\ MainStart("loop")
    /\ IdleBH
    /\ IdleDM
    /\ IdleOST
    /\ IdleStages

\* The loop header (line 196), on the groups of the table.
RerunNextGroup ==
    /\ pc = "loop"
    /\ Len(daily_rows) < Len(test)
    /\ d' = test[Len(daily_rows) + 1].date
    /\ g' = test[Len(daily_rows) + 1].grp
    /\ pc' = "body"
    /\ UNCHANGED <<daily_rows, picks_rows, equity_df, pm, sec_df, sector_stats, disk,
                   pureVars, rerunVars, stageVars>>

\* A second run that goes on with the rows of the first.
RerunKeepRows ==
    /\ pc = "loop"
    /\ run = 1
    /\ Len(daily_rows) = Len(test)
    /\ first_run' = [daily |-> daily_rows, picks |-> picks_rows]
    /\ daily_rows' = <<>>
    /\ d' = NoDate
    /\ run' = 2
    /\ UNCHANGED <<pc, g, picks_rows, equity_df, pm, sec_df, sector_stats, disk, test,
                   pureVars, stageVars>>

\* The first run has gone through the table; the second starts with empty
\* lists (line 195).
Rerun ==
    /\ pc = "loop"
    /\ run = 1
    /\ Len(daily_rows) = Len(test)
    /\ first_run' = [daily |-> daily_rows, picks |-> picks_rows]
    /\ daily_rows' = <<>>
    /\ picks_rows' = <<>>
    /\ d' = NoDate
    /\ run' = 2
    /\ UNCHANGED <<pc, g, equity_df, pm, sec_df, sector_stats, disk, test,
                   pureVars, stageVars>>

\* The second run has gone through the table.
RerunEnd ==
    /\ pc = "loop"
    /\ run = 2
    /\ Len(daily_rows) = Len(test)
    /\ pc' = "done"
    /\ UNCHANGED <<d, g, daily_rows, picks_rows, equity_df, pm, sec_df, sector_stats, disk,
                   pureVars, rerunVars, stageVars>>

NextRerun == RerunNextGroup \/ SelectDay \/ Rerun \/ RerunEnd

SpecRerun == InitRerun /\ [][NextRerun]_vars

----------------------------------------------------------------------------
(* Claims *)

\* The Benjamini-Hochberg recurrence on the sorted p-values P_(1..n):
\* q_(n) = P_(n), q_(i) = min(q_(i+1), P_(i) * n / i).
RECURSIVE BHStep(_, _, _)
BHStep(p, ord, i) ==
    LET raw == RDiv(RMul(p[ord[i]], Whole(Len(p))), Whole(i))
    IN  IF i = Len(p) THEN p[ord[i]]
        ELSE LET next == BHStep(p, ord, i + 1)
             IN  IF RLt(raw, next) THEN raw ELSE next

AllDefined(p) == \A i \in 1..Len(p) : ~IsNaN(p[i])

\* C1: for every non-empty vector of p-values in [0,1], bh_fdr returns the exact
\* Benjamini-Hochberg values q_(n) = p_(n), q_(i) = min(q_(i+1), p_(i) * n / i),
\* each at the position of its own p-value.
C1_BhExact ==
    (bh_pc = "done" /\ pvals # <<>> /\ AllDefined(pvals))
        => \A k \in 1..Len(pvals) : q_adj[order[k]] = BHStep(pvals, order, k)

\* C2: ordered by ascending raw p-value, the adjusted values are non-decreasing:
\* p_i <= p_j implies q_i <= q_j.
C2_BhMonotone ==
    (bh_pc = "done" /\ AllDefined(pvals))
        => \A i, j \in 1..Len(pvals) :
              RLe(pvals[i], pvals[j]) => RLe(q_adj[i], q_adj[j])

IsNonDecreasing(e) == \A i \in 1..(Len(e) - 1) : RLe(e[i], e[i + 1])

\* C8: for every non-empty return series (returns at or below -1 included),
\* max_drawdown is <= 0, and it is 0 only if the equity curve cumprod(1 + R)
\* is monotone non-decreasing.
C8_DrawdownNonPositive ==
    (dm_pc = "done" /\ daily_returns # <<>>)
        => /\ RLe(metrics.max_drawdown, Whole(0))
           /\ metrics.max_drawdown = Whole(0)
                => IsNonDecreasing(CumProd(Coerce(daily_returns)))

\* The sample standard deviation of the coerced series is 0: at least two
\* entries, all equal.
ZeroStd(x) ==
    Len(x) >= 2 /\ \A i, j \in 1..Len(x) : Coerce(x)[i] = Coerce(x)[j]

AllUndefined(res) ==
    /\ RootIsNaN(res.t) /\ TwoSidedPIsNaN(res.p)
    /\ ConfBoundIsNaN(res.ci_lo) /\ ConfBoundIsNaN(res.ci_hi)

AllDefinedStats(res) ==
    /\ ~RootIsNaN(res.t) /\ ~TwoSidedPIsNaN(res.p)
    /\ ~ConfBoundIsNaN(res.ci_lo) /\ ~ConfBoundIsNaN(res.ci_hi)

\* C10: one_sample_tstats reports t, p and both confidence bounds as undefined
\* exactly when n < 2 or the sample standard deviation is 0, and all four as
\* defined otherwise.
C10_TStatsUndefinedIff ==
    ost_pc = "done"
        => IF Len(ost_x) < 2 \/ ZeroStd(ost_x)
           THEN AllUndefined(ost_res)
           ELSE AllDefinedStats(ost_res)

\* The constant series [0.01, 0.01, 0.01, 0.01] has been tested and its t and p
\* are undefined.
C10_Witness ==
    /\ ost_pc = "done"
    /\ ost_x = <<Rat(1, 100), Rat(1, 100), Rat(1, 100), Rat(1, 100)>>
    /\ RootIsNaN(ost_res.t)
    /\ TwoSidedPIsNaN(ost_res.p)

\* One iteration of the selection loop has run: the group g of date d has
\* been processed.
BodyStep == pc = "body" /\ pc' = "loop"

\* The places in picks_rows of the records that iteration has appended.
NewPicks == (Len(picks_rows) + 1)..Len(picks_rows')

\* The rows of the group that are candidates of a sector.
Candidates(sector) == {i \in 1..Len(g) : g[i].sector = sector}

CostPerDay == Rat(COST_BPS_RT, 10000)

\* C3: every processed trading day emits exactly one pick record for each
\* sector of ALL_SECTORS: the highest-probability candidate of the sector
\* with return fwd_ret - cost, or, for a sector without a candidate, a record
\* with empty ticker and return 0.0.
C3_OnePickPerSector ==
    [][BodyStep =>
        /\ Len(picks_rows') = Len(picks_rows) + Len(ALL_SECTORS)
        /\ SubSeq(picks_rows', 1, Len(picks_rows)) = picks_rows
        /\ \A s \in Range(ALL_SECTORS) :
              LET recs == {k \in NewPicks : picks_rows'[k].sector = s}
              IN  /\ Cardinality(recs) = 1
                  /\ \A k \in recs :
                        /\ picks_rows'[k].date = d
                        /\ IF Candidates(s) = {}
                           THEN /\ picks_rows'[k].ticker = ""
                                /\ picks_rows'[k].ret = Whole(0)
                           ELSE \E i \in Candidates(s) :
                                   /\ \A j \in Candidates(s) : RLe(g[j].p_up, g[i].p_up)
                                   /\ picks_rows'[k].ticker = g[i].ticker
                                   /\ picks_rows'[k].ret = RSub(g[i].fwd_ret, CostPerDay)
    ]_vars

\* The pick records of a date.
PicksOf(date) == SelectSeq(picks_rows, LAMBDA r : r.date = date)

\* Two days have been processed; the second one picked MSFT for Technology
\* and XOM for Energy and gave the nine other sectors an empty record.
C3_Witness ==
    /\ pc = "loop"
    /\ Len(daily_rows) = 2
    /\ Len(PicksOf(d)) = Len(ALL_SECTORS)
    /\ \E k \in 1..Len(picks_rows) :
          /\ picks_rows[k].date = d
          /\ picks_rows[k].ticker = "MSFT"
          /\ picks_rows[k].ret = Whole(1)
    /\ \E k \in 1..Len(picks_rows) : picks_rows[k].date = d /\ picks_rows[k].ticker = "XOM"
    /\ Cardinality({k \in 1..Len(picks_rows) :
                       picks_rows[k].date = d /\ picks_rows[k].ticker = ""}) = 9

\* The business days from the first to the last of a set of dates.
BusinessDays(dates) ==
    {x \in Dates : /\ Weekday(x) < 5
                   /\ \E lo \in dates : lo <= x
                   /\ \E hi \in dates : x <= hi}

EquityDates == {equity_df[i].date : i \in 1..Len(equity_df)}

\* C4: the sector-daily grid has |business days between the first and the
\* last equity date| * |ALL_SECTORS| rows, holds every (business day, sector)
\* combination exactly once, and has no null return: a combination without a
\* pick record has return 0.0.
C4_GridComplete ==
    pc \in {"rank", "save", "done"} =>
        /\ Len(sec_df) = Cardinality(BusinessDays(EquityDates)) * Len(ALL_SECTORS)
        /\ \A x \in BusinessDays(EquityDates), s \in Range(ALL_SECTORS) :
              LET cell == {k \in 1..Len(sec_df) : sec_df[k].date = x /\ sec_df[k].sector = s}
              IN  /\ Cardinality(cell) = 1
                  /\ (\A k \in 1..Len(picks_rows) :
                         ~(picks_rows[k].date = x /\ picks_rows[k].sector = s))
                        => \A k \in cell : sec_df[k].sec_ret = Whole(0)
        /\ \A k \in 1..Len(sec_df) : IsFinite(sec_df[k].sec_ret)

TestDates == {daily_rows[i].date : i \in 1..Len(daily_rows)}

\* A run has ended whose two test dates have one business day without picks
\* between them: the grid has 33 rows, the 11 of that day at 0.0, and a
\* sector return that is not 0.
C4_Witness ==
    /\ pc = "done"
    /\ Len(sec_df) = 3 * Len(ALL_SECTORS)
    /\ \E x \in BusinessDays(EquityDates) \ TestDates :
          \A k \in 1..Len(sec_df) : sec_df[k].date = x => sec_df[k].sec_ret = Whole(0)
    /\ \E k \in 1..Len(sec_df) : sec_df[k].sec_ret = Whole(-1)

\* The forward return of the group's row of a ticker.
FwdOf(ticker) == g[CHOOSE i \in 1..Len(g) : g[i].ticker = ticker].fwd_ret

\* C5: on a day with at least one selected candidate, the day's net return is
\* the mean of the forward returns of the selected candidates minus
\* COST_BPS_RT / 10000, the cost being subtracted once whatever the number of
\* positions.
C5_CostOncePerDay ==
    [][(BodyStep /\ \E s \in Range(ALL_SECTORS) : Candidates(s) # {}) =>
        LET row == daily_rows'[Len(daily_rows')]
            sel == row.selected_tickers
        IN  /\ daily_rows' = Append(daily_rows, row)
            /\ row.date = d
            /\ sel # <<>>
            /\ row.ret = RSub(RDiv(RSum([i \in 1..Len(sel) |-> FwdOf(sel[i])]),
                                   Whole(Len(sel))),
                              CostPerDay)
    ]_vars

\* A day has selected XOM (forward return 0.001) and AAPL (forward return
\* -0.999): its net return is -0.499 - 0.001 = -0.5.
C5_Witness ==
    /\ pc = "loop"
    /\ daily_rows # <<>>
    /\ daily_rows[Len(daily_rows)].selected_tickers = <<"XOM", "AAPL">>
    /\ daily_rows[Len(daily_rows)].ret = Rat(-1, 2)

\* C6: a day on which no sector of ALL_SECTORS has a candidate has a portfolio
\* return of exactly 0.0, no selected ticker, and one empty-ticker zero-return
\* pick record for every sector.
C6_FlatDay ==
    [][(BodyStep /\ \A s \in Range(ALL_SECTORS) : Candidates(s) = {}) =>
        /\ daily_rows' = Append(daily_rows,
                                [date |-> d, ret |-> Whole(0), selected_tickers |-> <<>>])
        /\ Len(picks_rows') = Len(picks_rows) + Len(ALL_SECTORS)
        /\ \A k \in NewPicks :
              /\ picks_rows'[k].date = d
              /\ picks_rows'[k].ticker = ""
              /\ picks_rows'[k].ret = Whole(0)
        /\ \A s \in Range(ALL_SECTORS) :
              Cardinality({k \in NewPicks : picks_rows'[k].sector = s}) = 1
    ]_vars

\* A day whose only row was the benchmark ETF has been processed: the day is
\* flat and its eleven records are empty.
C6_Witness ==
    /\ pc = "loop"
    /\ daily_rows # <<>>
    /\ daily_rows[Len(daily_rows)].date = d
    /\ daily_rows[Len(daily_rows)].ret = Whole(0)
    /\ daily_rows[Len(daily_rows)].selected_tickers = <<>>
    /\ Len(PicksOf(d)) = Len(ALL_SECTORS)
    /\ \A k \in 1..Len(picks_rows) : picks_rows[k].date = d => picks_rows[k].ticker = ""

\* C7: the equity curve has exactly one row for each Monday-Friday date from
\* the first to the last test date, in strictly ascending order; a business
\* day without a daily row has return 0.0 and no selected ticker, a day with
\* one has its return and tickers; the series given to compute_daily_metrics
\* has the calendar's length.
C7_EquityCalendar ==
    pc \in {"sector", "rank", "save", "done", "aborted"} =>
        /\ Len(equity_df) = Cardinality(BusinessDays(TestDates))
        /\ EquityDates = BusinessDays(TestDates)
        /\ \A i \in 1..(Len(equity_df) - 1) : equity_df[i].date < equity_df[i + 1].date
        /\ \A i \in 1..Len(equity_df) :
              IF equity_df[i].date \in TestDates
              THEN \E k \in 1..Len(daily_rows) :
                      /\ daily_rows[k].date = equity_df[i].date
                      /\ daily_rows[k].ret = equity_df[i].ret
                      /\ daily_rows[k].selected_tickers = equity_df[i].selected_tickers
              ELSE /\ equity_df[i].ret = Whole(0)
                   /\ equity_df[i].selected_tickers = <<>>
        /\ pm.days = Cardinality(BusinessDays(TestDates))

\* A run has ended whose test dates are a Thursday and the next Monday: the
\* equity curve has three rows, the Friday between them flat, and the metrics
\* count three days.
C7_Witness ==
    /\ pc = "done"
    /\ Len(equity_df) = 3
    /\ equity_df[2].date \notin TestDates
    /\ equity_df[2].ret = Whole(0)
    /\ equity_df[1].ret # Whole(0)
    /\ equity_df[3].date - equity_df[1].date = 4
    /\ pm.days = 3

\* C9: the sector-stats file the backtest writes has one row for each sector
\* of ALL_SECTORS and no null in a numeric column: verify_file accepts it.
C9_SectorStatsComplete ==
    disk.sector_stats.exists => verify_file(disk.sector_stats)

\* A finite number in units of 0.0001, rounded half up.
Round4(x) == LET y == RMul(x, Whole(10000)) IN (2 * y.n + y.d) \div (2 * y.d)

\* The adjusted values in ascending order of their p-values.
AdjustedByP == [k \in 1..Len(order) |-> q_adj[order[k]]]

\* C16: on the p-values [0.01, 0.04, 0.03, 0.20], taken in ascending order of
\* p, bh_fdr yields q = [0.04, 0.04, 0.0533, 0.20] (to four decimals).
C16_BhScenario ==
    (bh_pc = "done" /\ pvals = ScenarioPValues)
        => [k \in 1..4 |-> Round4(AdjustedByP[k])] = <<400, 400, 533, 2000>>

\* C17: for the series [0.01, -0.02, 0.0, 0.03, 0.0] the equity curve is
\* [1.01, 0.9898, 0.9898, 1.0195, 1.0195] to four decimals and max_drawdown
\* is about -0.0198.
C17_ScenarioDrawdown ==
    (dm_pc = "done" /\ daily_returns = ScenarioReturns)
        => /\ [i \in 1..5 |-> Round4(CumProd(daily_returns)[i])]
                 = <<10100, 9898, 9898, 10195, 10195>>
           /\ Round4(metrics.max_drawdown) = -198

\* C17, amended: the equity curve is as stated and max_drawdown is -0.02, the
\* value of 0.9898 / 1.01 - 1 on the -0.02 day.
C17_ScenarioDrawdownExact ==
    (dm_pc = "done" /\ daily_returns = ScenarioReturns)
        => /\ [i \in 1..5 |-> Round4(CumProd(daily_returns)[i])]
                 = <<10100, 9898, 9898, 10195, 10195>>
           /\ metrics.max_drawdown = Rat(-2, 100)
           /\ metrics.max_drawdown
                 = RSub(RDiv(CumProd(daily_returns)[2], CumProd(daily_returns)[1]), Whole(1))

\* The five-day series has been summarised.
C17_Witness ==
    /\ dm_pc = "done"
    /\ daily_returns = ScenarioReturns
    /\ metrics.days = 5
    /\ metrics.non_zero_days = 3

\* An entry with no numeric value.
IsMissing(x) == x = NaN \/ x = NonNumeric

\* The series with every missing entry replaced by 0.0.
Zeroed(x) == [i \in 1..Len(x) |-> IF IsMissing(x[i]) THEN Whole(0) ELSE x[i]]

\* C19: compute_daily_metrics counts a missing or non-numeric entry as 0.0
\* and never drops it: days is the length of the input, and every field is
\* that of the series with those entries replaced by 0.0.
C19_MissingIsZero ==
    dm_pc = "done"
        => /\ metrics.days = Len(daily_returns)
           /\ metrics = compute_daily_metrics(Zeroed(daily_returns))

\* A series of a missing entry, a text entry and a return of 0.5 has been
\* summarised as three days, one of them not zero.
C19_Witness ==
    /\ dm_pc = "done"
    /\ daily_returns = <<NaN, NonNumeric, Rat(1, 2)>>
    /\ metrics.days = 3
    /\ metrics.non_zero_days = 1
    /\ metrics.ann_return_arith = Whole(42)

\* C20: on an empty series compute_daily_metrics returns days = 0 and
\* non_zero_days = 0, and every rate is undefined, none of them zero.
C20_EmptyUndefined ==
    (dm_pc = "done" /\ daily_returns = <<>>)
        => /\ metrics.days = 0
           /\ metrics.non_zero_days = 0
           /\ IsNaN(metrics.ann_return_arith)
           /\ GeomIsNaN(metrics.ann_return_geom)
           /\ RootIsNaN(metrics.ann_vol)
           /\ RootIsNaN(metrics.sharpe)
           /\ IsNaN(metrics.max_drawdown)

\* The empty series has been summarised.
C20_Witness ==
    /\ dm_pc = "done"
    /\ daily_returns = <<>>
    /\ metrics.days = 0

BothRunsDone == pc = "done" /\ run = 2

DatesAscending(rows) == \A i \in 1..(Len(rows) - 1) : rows[i].date < rows[i + 1].date

PickPlace(r) ==
    (IF r.ticker = "" THEN Len(ALL_SECTORS) ELSE 0) + SectorIndex(r.sector)

BacktestOutputs == {"equity_curve", "sector_stats", "sector_daily_returns"}

\* C14: the backtest writes none of its three output files before the
\* sector-count assertion has passed: a file exists only once the run is done
\* with len(ALL_SECTORS) sector-stats rows, and a run that has aborted has
\* written no file.
C14_NoOutputBeforeAssertion ==
    /\ (\E f \in BacktestOutputs : disk[f].exists)
          => pc = "done" /\ Len(sector_stats) = Len(ALL_SECTORS)
    /\ pc \in {"loop", "body", "sector", "rank", "save", "aborted"} => disk = EmptyDisk

\* A run has ended with the three files written, the sector stats with one
\* row per sector.
C14_Witness ==
    /\ pc = "done"
    /\ \A f \in BacktestOutputs : disk[f].exists
    /\ Len(disk.sector_stats.rows) = Len(ALL_SECTORS)
    /\ Len(disk.sector_daily_returns.rows) = 3 * Len(ALL_SECTORS)

----------------------------------------------------------------------------
(* The stages after the backtest, each run on its own over the files it     *)
(* finds: 65_stats_tests.py, 64_rebuild_sector_daily.py and                 *)
(* 55_recompute_sector_stats.py.  A file of sector daily returns with a     *)
(* header and no row is left out: the code resamples it without a date      *)
(* index.                                                                   *)

EquityDay(date, ret) == [date |-> date, ret |-> ret, selected_tickers |-> <<>>]

\* The equity curves tried: one of a week, one of six weeks and a day less,
\* and one of six weeks, which has min_days business days.
StageEquity ==
    {EquityDf(<<EquityDay(0, Rat(1, 100)), EquityDay(4, Rat(-1, 100))>>),
     EquityDf(<<EquityDay(0, Rat(1, 100)), EquityDay(6 * 7 - 2, Whole(0))>>),
     EquityDf(<<EquityDay(0, Rat(1, 100)), EquityDay(6 * 7 - 1, Whole(0))>>)}

\* The sector-stats files tried by the rebuild stage, of which it reads the
\* sector column only: no row (as 55_recompute_sector_stats.py writes when no
\* sector has min_days days), two sectors, a sector named twice.
StageStats ==
    {<<>>,
     <<[sector |-> "Technology"], [sector |-> "Energy"]>>,
     <<[sector |-> "Utilities"], [sector |-> "Utilities"]>>}

Labelled(date, sector, fwd_ret) == [date |-> date, sector |-> sector, fwd_ret |-> fwd_ret]

\* The training tables tried by the recompute stage: no row; two sectors with
\* two rows of one day and a row after the test period; a sector whose second
\* label is missing.
StageTraining ==
    {<<>>,
     <<Labelled(0, "Technology", Rat(1, 100)), Labelled(0, "Technology", Rat(3, 100)),
       Labelled(1, "Energy", Rat(-1, 100)), Labelled(50, "Utilities", Rat(1, 100))>>,
     <<Labelled(4, "Energy", Rat(1, 100)), Labelled(0, "Technology", Rat(-1, 100)),
       Labelled(4, "Technology", NaN)>>}

Present(tables) == {NoFile} \cup {File(x) : x \in tables}

MainAside ==
    /\ pc = "idle"
    /\ d = NoDate /\ g = <<>>
    /\ daily_rows = <<>> /\ picks_rows = <<>>
    /\ equity_df = <<>> /\ pm = NoMetrics
    /\ sec_df = <<>> /\ sector_stats = <<>>

InitStages ==
    /\ MainAside
    /\ IdleBH
    /\ IdleDM
    /\ IdleOST
    /\ IdleRerun
    /\ datasets = <<>>
    /\ access = NoAccess
    /\ \/ /\ stage_pc = At("significance", "start", "none")
          /\ \E f \in Present(SigInputs) :
                disk = [EmptyDisk EXCEPT !.sector_daily_returns = f]
       \/ /\ stage_pc = At("rebuild", "start", "none")
          /\ \E e \in Present(StageEquity), f \in Present(StageStats) :
                disk = [EmptyDisk EXCEPT !.equity_curve = e, !.sector_stats = f]
       \/ /\ stage_pc = At("recompute", "start", "none")
          /\ \E e \in Present(StageEquity), f \in Present(StageTraining) :
                disk = [EmptyDisk EXCEPT !.equity_curve = e, !.training_data = f]

asideVars == <<pc, d, g, daily_rows, picks_rows, equity_df, pm, sec_df, sector_stats,
               pureVars, rerunVars>>

\* A significance stage that goes on without its input, on an empty frame.
SigStartAnyway ==
    /\ stage_pc = At("significance", "start", "none")
    /\ datasets' = [daily |-> SortFrame(disk.sector_daily_returns.rows),
                    weekly |-> aggregate_weekly(SortFrame(disk.sector_daily_returns.rows))]
    /\ stage_pc' = At("significance", "one", "daily")
    /\ access' = Accessed(access, "significance", {"sector_daily_returns"}, {})
    /\ UNCHANGED <<disk, asideVars>>

\* main of 65_stats_tests.py, lines 144-153.
SigStart ==
    /\ stage_pc = At("significance", "start", "none")
    /\ IF ~disk.sector_daily_returns.exists
       THEN /\ stage_pc' = At("significance", "stopped", "none")
            /\ UNCHANGED <<datasets, access>>
       ELSE /\ datasets' = [daily |-> SortFrame(disk.sector_daily_returns.rows),
                            weekly |-> aggregate_weekly(SortFrame(disk.sector_daily_returns.rows))]
            /\ stage_pc' = At("significance", "one", "daily")
            /\ access' = Accessed(access, "significance", {"sector_daily_returns"}, {})
    /\ UNCHANGED <<disk, asideVars>>

\* The step of the loop of main after the pairwise tests of a frequency.
AfterPairwise(freq) ==
    IF freq = "daily" THEN At("significance", "one", "weekly")
    ELSE At("significance", "done", "none")

\* Lines 156-162: an empty frame is skipped, else run_one_sample_tests.
RunOneSampleTests ==
    /\ stage_pc.stage = "significance" /\ stage_pc.step = "one"
    /\ IF datasets[stage_pc.freq] = <<>>
       THEN /\ stage_pc' = AfterPairwise(stage_pc.freq)
            /\ UNCHANGED <<disk, access>>
       ELSE /\ \E tt \in OneSampleTables(datasets[stage_pc.freq], stage_pc.freq) :
                  disk' = [disk EXCEPT ![OUT_TTEST(stage_pc.freq)] = File(tt)]
            /\ access' = Accessed(access, "significance", {}, {OUT_TTEST(stage_pc.freq)})
            /\ stage_pc' = At("significance", "pair", stage_pc.freq)
    /\ UNCHANGED <<datasets, asideVars>>

\* Line 163: run_pairwise_tests, which writes nothing for fewer than two
\* sectors.
RunPairwiseTests ==
    /\ stage_pc.stage = "significance" /\ stage_pc.step = "pair"
    /\ IF Len(GroupKeys(datasets[stage_pc.freq])) < 2
       THEN UNCHANGED <<disk, access>>
       ELSE /\ \E pw \in PairwiseTables(datasets[stage_pc.freq], stage_pc.freq) :
                  disk' = [disk EXCEPT ![OUT_PAIRWISE(stage_pc.freq)] = File(pw)]
            /\ access' = Accessed(access, "significance", {}, {OUT_PAIRWISE(stage_pc.freq)})
    /\ stage_pc' = AfterPairwise(stage_pc.freq)
    /\ UNCHANGED <<datasets, asideVars>>

\* main of 64_rebuild_sector_daily.py.  pd.concat raises on an empty list of
\* frames, which ends the run before the file is written.
Rebuild ==
    /\ stage_pc = At("rebuild", "start", "none")
    /\ IF ~disk.equity_curve.exists
       THEN /\ stage_pc' = At("rebuild", "stopped", "none")
            /\ UNCHANGED <<disk, access>>
       ELSE LET sectors ==
                    IF disk.sector_stats.exists
                    THEN UniqueInOrder([i \in 1..Len(disk.sector_stats.rows) |->
                                           disk.sector_stats.rows[i].sector])
                    ELSE <<"All">>
                read == {"equity_curve"}
                            \cup (IF disk.sector_stats.exists THEN {"sector_stats"} ELSE {})
            IN  IF sectors = <<>>
                THEN /\ stage_pc' = At("rebuild", "failed", "none")
                     /\ access' = Accessed(access, "rebuild", read, {})
                     /\ UNCHANGED disk
                ELSE /\ stage_pc' = At("rebuild", "done", "none")
                     /\ access' = Accessed(access, "rebuild", read, {"sector_daily_returns"})
                     /\ disk' = [disk EXCEPT !.sector_daily_returns =
                                    File(RebuildFrame(disk.equity_curve.rows, sectors))]
    /\ UNCHANGED <<datasets, asideVars>>

\* main of 55_recompute_sector_stats.py.
Recompute ==
    /\ stage_pc = At("recompute", "start", "none")
    /\ IF ~disk.equity_curve.exists \/ ~disk.training_data.exists
       THEN /\ stage_pc' = At("recompute", "stopped", "none")
            /\ UNCHANGED <<disk, access>>
       ELSE /\ stage_pc' = At("recompute", "done", "none")
            /\ access' = Accessed(access, "recompute", {"equity_curve", "training_data"},
                                  {"sector_stats"})
            /\ \E tab \in RecomputedTables(disk.equity_curve.rows, disk.training_data.rows) :
                  disk' = [disk EXCEPT !.sector_stats = File(tab)]
    /\ UNCHANGED <<datasets, asideVars>>

NextStages == SigStart \/ RunOneSampleTests \/ RunPairwiseTests \/ Rebuild \/ Recompute

SpecStages == InitStages /\ [][NextStages]_vars

----------------------------------------------------------------------------
(* Claims on the significance, rebuild and recompute stages *)

\* The Friday on or after a date.
FridayOf(date) == CHOOSE w \in date..(date + 6) : Weekday(w) = 4

\* The daily rows of a sector dated from the Saturday before a Friday to it.
RowsOfWeek(daily, sector, friday) ==
    {j \in 1..Len(daily) :
        daily[j].sector = sector /\ daily[j].date \in (friday - 6)..friday}

RECURSIVE CompoundedOver(_, _)
CompoundedOver(daily, js) ==
    IF js = {} THEN Whole(1)
    ELSE LET j == CHOOSE x \in js : TRUE
         IN  RMul(RAdd(Whole(1), daily[j].sec_ret), CompoundedOver(daily, js \ {j}))

\* The Fridays from the week of a sector's first row to the week of its last.
FridaysOf(daily, sector) ==
    LET own == {daily[j].date : j \in {k \in 1..Len(daily) : daily[k].sector = sector}}
    IN  {w \in 0..(FridayOf(CHOOSE x \in own : \A y \in own : y <= x)) :
            /\ Weekday(w) = 4
            /\ w >= FridayOf(CHOOSE x \in own : \A y \in own : x <= y)}

\* C12: aggregate_weekly gives exactly one row per sector and Friday from the
\* week of the sector's first row to the week of its last; the row's return is
\* the product of 1 + r over the sector's daily rows of the Saturday-to-Friday
\* span ending that Friday, minus 1; and every daily row lies in the span of
\* exactly one weekly row of its sector.
C12_WeeklyRows ==
    datasets # <<>> =>
        LET daily == datasets.daily
            weekly == datasets.weekly
            sectors == {daily[j].sector : j \in 1..Len(daily)}
        IN  /\ \A s \in sectors : \A w \in FridaysOf(daily, s) :
                  /\ Cardinality({i \in 1..Len(weekly) :
                         weekly[i].sector = s /\ weekly[i].date = w}) = 1
                  /\ \A i \in 1..Len(weekly) :
                         weekly[i].sector = s /\ weekly[i].date = w =>
                             weekly[i].sec_ret =
                                 RSub(CompoundedOver(daily, RowsOfWeek(daily, s, w)), Whole(1))
            /\ \A i \in 1..Len(weekly) :
                  /\ weekly[i].sector \in sectors
                  /\ weekly[i].date \in FridaysOf(daily, weekly[i].sector)
            /\ \A j \in 1..Len(daily) :
                  Cardinality({i \in 1..Len(weekly) :
                      /\ weekly[i].sector = daily[j].sector
                      /\ daily[j].date \in (weekly[i].date - 6)..weekly[i].date}) = 1

\* A frame with a week that compounds several rows and a week without a row.
C12_Witness ==
    /\ datasets # <<>>
    /\ \E i \in 1..Len(datasets.weekly) :
          Cardinality(RowsOfWeek(datasets.daily, datasets.weekly[i].sector,
                                 datasets.weekly[i].date)) >= 2
    /\ \E i \in 1..Len(datasets.weekly) :
          RowsOfWeek(datasets.daily, datasets.weekly[i].sector,
                     datasets.weekly[i].date) = {}

\* The pairwise tests of a frequency have been run.
PairwiseRan(freq) ==
    /\ stage_pc.stage = "significance"
    /\ \/ stage_pc.step = "done"
       \/ freq = "daily" /\ stage_pc.freq = "weekly"

SectorsIn(df) == {df[i].sector : i \in 1..Len(df)}

\* The pairwise table of a frequency is that of one best sector against each
\* of the others.
BestVsRest(freq) ==
    LET df == datasets[freq]
        pw == disk[OUT_PAIRWISE(freq)]
    IN  /\ pw.exists
        /\ Len(pw.rows) = Cardinality(SectorsIn(df)) - 1
        /\ \E best \in SectorsIn(df) :
              /\ \A s \in SectorsIn(df) :
                    RLe(Mean(Column(df, s)), Mean(Column(df, best)))
              /\ \A i \in 1..Len(pw.rows) :
                    pw.rows[i].best = best /\ pw.rows[i].other # best
              /\ \A s \in SectorsIn(df) \ {best} :
                    Cardinality({i \in 1..Len(pw.rows) : pw.rows[i].other = s}) = 1

\* C11: for a batch of k >= 2 sectors run_pairwise_tests gives exactly k - 1
\* rows, all naming one best sector whose raw mean is at least that of every
\* other sector; each other sector is once the 'other'; the best sector is
\* never compared with itself and no two non-best sectors are compared.
C11_BestVsRest ==
    \A freq \in {"daily", "weekly"} :
        (PairwiseRan(freq) /\ Cardinality(SectorsIn(datasets[freq])) >= 2) =>
            BestVsRest(freq)

\* Both pairwise tables written for a batch of three sectors.
C11_Witness ==
    /\ PairwiseRan("weekly")
    /\ Cardinality(SectorsIn(datasets.daily)) = 3
    /\ Len(disk[OUT_PAIRWISE("daily")].rows) = 2
    /\ Len(disk[OUT_PAIRWISE("weekly")].rows) = 2

\* The four tables of the significance stage.
SignificanceOutputs ==
    {OUT_TTEST("daily"), OUT_TTEST("weekly"),
     OUT_PAIRWISE("daily"), OUT_PAIRWISE("weekly")}

\* A table's rows go by non-decreasing p_fdr, the rows without one last.
InPFdrOrder(rows) ==
    \A i \in 1..(Len(rows) - 1) :
        \/ IsNaN(rows[i + 1].p_fdr)
        \/ /\ ~IsNaN(rows[i].p_fdr)
           /\ RLe(rows[i].p_fdr, rows[i + 1].p_fdr)

\* C15: every significance table written (one-sample and pairwise, daily and
\* weekly) has its rows in non-decreasing order of the FDR-adjusted p-value,
\* the rows whose adjusted p-value is undefined last.
C15_SortedByPFdr ==
    \A f \in SignificanceOutputs : disk[f].exists => InPFdrOrder(disk[f].rows)

\* The four tables written, one of them with rows of different adjusted
\* p-values and one of them with rows that have none.
C15_Witness ==
    /\ \A f \in SignificanceOutputs : disk[f].exists
    /\ \E f \in SignificanceOutputs : \E i \in 1..(Len(disk[f].rows) - 1) :
          /\ ~IsNaN(disk[f].rows[i].p_fdr)
          /\ ~IsNaN(disk[f].rows[i + 1].p_fdr)
          /\ disk[f].rows[i].p_fdr # disk[f].rows[i + 1].p_fdr
    /\ \E f \in SignificanceOutputs :
          /\ Len(disk[f].rows) >= 2
          /\ \A i \in 1..Len(disk[f].rows) : IsNaN(disk[f].rows[i].p_fdr)

\* The stage at its start lacks a file it requires.
MissingInput ==
    /\ stage_pc.step = "start"
    /\ \/ stage_pc.stage = "significance" /\ ~disk.sector_daily_returns.exists
       \/ stage_pc.stage = "rebuild" /\ ~disk.equity_curve.exists
       \/ stage_pc.stage = "recompute"
            /\ (~disk.equity_curve.exists \/ ~disk.training_data.exists)

\* C13: a stage whose required input file is missing (sector_daily_returns
\* for the significance stage, equity_curve for the rebuild stage,
\* equity_curve or training_data for the recompute stage) stops at once and
\* writes no file.
C13_MissingInputStops ==
    [][MissingInput => (stage_pc'.step = "stopped" /\ disk' = disk)]_vars

\* A recompute stage stopped for want of the training data alone.
C13_Witness ==
    /\ stage_pc = At("recompute", "stopped", "none")
    /\ disk.equity_curve.exists
    /\ ~disk.training_data.exists
    /\ ~disk.sector_stats.exists

----------------------------------------------------------------------------
(* Claims on the Sharpe ratio and on the ranking of the sector statistics *)

\* The volatility is a number above zero.
VolPositive(m) == ~RootIsNaN(m.ann_vol) /\ IsFinite(m.ann_vol.sq) /\ m.ann_vol.sgn > 0

\* x is the quotient a / v of a rate a and a root v > 0: the sign of a, and
\* x^2 * v^2 = a^2.
IsQuotient(x, a, v) ==
    /\ ~RootIsNaN(x) /\ IsFinite(x.sq)
    /\ x.sgn = Sgn(a.n)
    /\ RMul(x.sq, v.sq) = RMul(a, a)

\* C21: compute_daily_metrics reports sharpe = ann_return_arith / ann_vol when
\* ann_vol is defined and above zero, and an undefined sharpe (no infinity)
\* when ann_vol is zero or undefined.
C21_SharpeDefinedIff ==
    dm_pc = "done"
        => IF VolPositive(metrics)
           THEN IsQuotient(metrics.sharpe, metrics.ann_return_arith, metrics.ann_vol)
           ELSE RootIsNaN(metrics.sharpe)

\* A constant series of gains has been summarised: its arithmetic return is
\* above zero, its volatility is exactly zero and its Sharpe ratio is undefined.
C21_Witness ==
    /\ dm_pc = "done"
    /\ daily_returns = <<Rat(1, 2), Rat(1, 2), Rat(1, 2)>>
    /\ metrics.ann_return_arith = Whole(126)
    /\ metrics.ann_vol = Root(0, Whole(0))
    /\ RootIsNaN(metrics.sharpe)

\* The rows of the sector-stats file of the backtest.
WrittenStats == disk.sector_stats.rows

\* C23: the sharpe column of the sector-stats table written by the backtest is
\* non-increasing from the first row to the last.
C23_SharpeNonIncreasing ==
    (pc = "done" /\ disk.sector_stats.exists)
        => \A i \in 1..(Len(WrittenStats) - 1) :
              RootGe(WrittenStats[i].sharpe, WrittenStats[i + 1].sharpe)

\* The daily returns of a sector in the grid have no variance: fewer than two
\* days, or the same return every day.
NoVariance(sector) ==
    \A i, j \in 1..Len(Column(sec_df, sector)) :
        Column(sec_df, sector)[i] = Column(sec_df, sector)[j]

\* The row of a sector in the written table.
PlaceOf(sector) == CHOOSE i \in 1..Len(WrittenStats) : WrittenStats[i].sector = sector

\* C24: in the sector-stats table written by the backtest, every sector whose
\* Sharpe ratio is undefined (no variance) comes after every sector whose
\* Sharpe ratio is defined, a negative one included.
C24_UndefinedLast ==
    (pc = "done" /\ disk.sector_stats.exists)
        => \A a, b \in Range(ALL_SECTORS) :
              (NoVariance(a) /\ ~NoVariance(b)) => PlaceOf(b) < PlaceOf(a)

\* A table has been written whose first row is a sector of negative Sharpe
\* ratio and whose other rows are the sectors without variance, at 0.0.
C24_Witness ==
    /\ pc = "done"
    /\ disk.sector_stats.exists
    /\ WrittenStats[1].sharpe.sgn < 0
    /\ ~NoVariance(WrittenStats[1].sector)
    /\ \A i \in 2..Len(WrittenStats) :
          NoVariance(WrittenStats[i].sector) /\ WrittenStats[i].sharpe = RootZero

----------------------------------------------------------------------------
(* Claims on the selection loop and on calendarization *)

\* The pick records an iteration of the loop has appended that name a ticker.
NamedPicks ==
    SelectSeq(SubSeq(picks_rows', Len(picks_rows) + 1, Len(picks_rows')),
              LAMBDA r : r.ticker # "")

\* C28: on a day with at least one selected candidate, the day's portfolio net
\* return is the arithmetic mean of the returns of that day's pick records with
\* a non-empty ticker; the empty-ticker records do not enter it.
C28_PortfolioIsMeanOfPicks ==
    [][(BodyStep /\ \E s \in Range(ALL_SECTORS) : Candidates(s) # {}) =>
        /\ NamedPicks # <<>>
        /\ daily_rows'[Len(daily_rows')].date = d
        /\ daily_rows'[Len(daily_rows')].ret =
              RDiv(RSum([i \in 1..Len(NamedPicks) |-> NamedPicks[i].ret]),
                   Whole(Len(NamedPicks)))
    ]_vars

\* A day has picked AAPL (net -1.0) and XOM (net 0.0) and has given the nine
\* other sectors an empty record: its portfolio return is -0.5, the mean of the
\* two, not -1/11.
C28_Witness ==
    /\ pc = "loop"
    /\ daily_rows # <<>>
    /\ daily_rows[Len(daily_rows)].date = d
    /\ daily_rows[Len(daily_rows)].ret = Rat(-1, 2)
    /\ \E k \in 1..Len(PicksOf(d)) :
          PicksOf(d)[k].ticker = "AAPL" /\ PicksOf(d)[k].ret = Whole(-1)
    /\ \E k \in 1..Len(PicksOf(d)) :
          PicksOf(d)[k].ticker = "XOM" /\ PicksOf(d)[k].ret = Whole(0)
    /\ Cardinality({k \in 1..Len(PicksOf(d)) : PicksOf(d)[k].ticker = ""}) = 9

\* C30: every net return the selection loop computed for a trading date is in
\* the equity curve on that date, and every pick record is in the sector-daily
\* grid on its date and sector with its return; no processed date, a Saturday
\* or a Sunday included, is dropped by calendarization.
C30_NoDateDropped ==
    pc \in {"rank", "save", "done"} =>
        /\ \A k \in 1..Len(daily_rows) :
              \E i \in 1..Len(equity_df) :
                 /\ equity_df[i].date = daily_rows[k].date
                 /\ equity_df[i].ret = daily_rows[k].ret
        /\ \A k \in 1..Len(picks_rows) :
              \E j \in 1..Len(sec_df) :
                 /\ sec_df[j].date = picks_rows[k].date
                 /\ sec_df[j].sector = picks_rows[k].sector
                 /\ sec_df[j].sec_ret = picks_rows[k].ret

----------------------------------------------------------------------------
(* Claims on the range of bh_fdr and on its undefined p-values *)

InUnitInterval(x) == RLe(Whole(0), x) /\ RLe(x, Whole(1))

\* C26: in a batch of defined and undefined p-values, bh_fdr leaves the
\* undefined entries undefined and returns a defined adjusted value in [0, 1]
\* for every entry whose p-value is defined.
C26_DefinedStayDefined ==
    bh_pc = "done"
        => \A i \in 1..Len(pvals) :
              IF IsNaN(pvals[i]) THEN IsNaN(q_adj[i]) ELSE InUnitInterval(q_adj[i])

\* C27: for every vector of p-values in [0, 1], each value bh_fdr returns lies
\* in [0, 1] and is not below the p-value at the same position.
C27_AdjustedAtLeastRaw ==
    (bh_pc = "done" /\ AllDefined(pvals))
        => \A i \in 1..Len(pvals) :
              InUnitInterval(q_adj[i]) /\ RLe(pvals[i], q_adj[i])

\* The p-values [1, 0.75, 0.25] have been adjusted to [1, 1, 0.75]: the first
\* was clipped from 9/8 and the other two were raised.
C27_Witness ==
    /\ bh_pc = "done"
    /\ pvals = <<Whole(1), Rat(3, 4), Rat(1, 4)>>
    /\ q_adj = <<Whole(1), Whole(1), Rat(3, 4)>>

----------------------------------------------------------------------------
(* Claims on the weekly returns and on the files of the stages *)

\* The product of 1 + return over the rows of a sector in a frame.
TotalGrowth(df, sector) == ProdOver(Column(df, sector), 1, Len(Column(df, sector)))

\* C29: for every sector, the product of (1 + weekly return) over the rows
\* aggregate_weekly gives the sector equals the product of (1 + daily return)
\* over the sector's daily rows.
C29_WeeklyPreservesTotal ==
    (stage_pc.stage = "significance" /\ datasets # <<>>)
        => \A s \in SectorsIn(datasets.daily) :
              TotalGrowth(datasets.weekly, s) = TotalGrowth(datasets.daily, s)

\* The daily Energy returns 0.5 (a Friday), 1.0 and 0.0 (the week after) have
\* been compounded into the weekly returns 0.5 and 1.0, a total growth of 3,
\* and Utilities has weekly rows for the empty weeks between its two days.
C29_Witness ==
    /\ stage_pc.stage = "significance"
    /\ datasets # <<>>
    /\ Column(datasets.daily, "Energy") = <<Rat(1, 2), Whole(1), Whole(0)>>
    /\ Column(datasets.weekly, "Energy") = <<Rat(1, 2), Whole(1)>>
    /\ TotalGrowth(datasets.weekly, "Energy") = Whole(3)
    /\ Len(Column(datasets.weekly, "Utilities")) > Len(Column(datasets.daily, "Utilities"))
    /\ Len(Column(datasets.daily, "Utilities")) = 2

----------------------------------------------------------------------------
(* The stages run one after another on one DATA_DIR.  A stage is a script   *)
(* run to its end before the next is started; the backtest, the recompute   *)
(* stage and the rebuild stage are started in any order, any number of      *)
(* times.  The significance stage writes only its own four files and is     *)
(* run on its own in SpecStages.                                            *)

\* The prediction tables of the backtest tried here: one date, one row.
PipelineTables == {t \in Tables : Len(t) = 1 /\ Len(t[1].grp) = 1}

BacktestEnded == pc \in {"idle", "done", "aborted"}

StageEnded == stage_pc.step \in {"idle", "done", "stopped", "failed"}

\* DATA_DIR holds at most the training table 45_make_labels.py writes.
InitPipeline ==
    /\ MainAside
    /\ \E f \in Present(StageTraining) : disk = [EmptyDisk EXCEPT !.training_data = f]
    /\ test \in PipelineTables
    /\ run = 1
    /\ first_run = NoRun
    /\ IdleBH
    /\ IdleDM
    /\ IdleOST
    /\ IdleStages

\* 50_train_backtest.py is started: main() with empty lists (line 195).
StartBacktest ==
    /\ BacktestEnded
    /\ StageEnded
    /\ pc' = "loop"
    /\ d' = NoDate /\ g' = <<>>
    /\ daily_rows' = <<>> /\ picks_rows' = <<>>
    /\ equity_df' = <<>> /\ pm' = NoMetrics
    /\ sec_df' = <<>> /\ sector_stats' = <<>>
    /\ UNCHANGED <<disk, otherVars>>

\* 55_recompute_sector_stats.py or 64_rebuild_sector_daily.py is started.
StartStage ==
    /\ BacktestEnded
    /\ StageEnded
    /\ \E s \in {"recompute", "rebuild"} : stage_pc' = At(s, "start", "none")
    /\ UNCHANGED <<datasets, access, disk, asideVars>>

NextPipeline ==
    \/ StartBacktest \/ RerunNextGroup \/ SelectDay \/ Calendarize
    \/ SectorAggregate \/ RankSectorStats \/ Save
    \/ StartStage \/ Recompute \/ Rebuild

SpecPipeline == InitPipeline /\ [][NextPipeline]_vars

\* C25: with the stages run in any order, every file of DATA_DIR has a single
\* producing stage: no stage writes a file it reads, and no stage writes a
\* file another stage has written.
C25_WriteOnce ==
    \A f \in Files :
        /\ Cardinality(access[f].writers) <= 1
        /\ access[f].writers \cap access[f].readers = {}

----------------------------------------------------------------------------
(* main() of the backtest on a prediction table whose dates carry a time of *)
(* day.  pd.to_datetime (line 103) keeps the time of day, groupby("date")   *)
(* groups by the full timestamp, and the merges of lines 246 and 275 match  *)
(* on it.  A timestamp is a whole number: the day number times the number   *)
(* of times of day, plus the place of its time of day; the first time of    *)
(* day is midnight.                                                         *)

\* The times of day a date of the table may carry.
TimesOfDay == <<"00:00", "09:30">>

\* The timestamp of the k-th time of day on a day.
StampOf(day, k) == day * Len(TimesOfDay) + (k - 1)

\* The day of a timestamp.
DayOf(stamp) == stamp \div Len(TimesOfDay)

Stamps == {StampOf(day, k) : day \in Dates, k \in 1..Len(TimesOfDay)}

\* pd.bdate_range(first, last) on timestamps: its normalize parameter is True
\* by default, so both ends are set to midnight and the range holds the
\* midnight of every Monday-Friday day from the day of first to that of last.
BDateRangeOf(first, last) ==
    LET days == BDateRange(DayOf(first), DayOf(last))
    IN  [i \in 1..Len(days) |-> StampOf(days[i], 1)]

\* The groups tried: one row of a sector of ALL_SECTORS.
TimedGroups == {grp \in RerunGroups : Len(grp) = 1}

\* The loop header (line 196): the next timestamp, in ascending order, and its
\* group.
TimedNextGroup ==
    /\ pc = "loop"
    /\ Len(daily_rows) < MaxDays
    /\ \E stamp \in Stamps, grp \in TimedGroups :
          /\ stamp > d
          /\ d' = stamp
          /\ g' = grp
    /\ pc' = "body"
    /\ UNCHANGED <<daily_rows, picks_rows, equity_df, pm, sec_df, sector_stats, disk, otherVars>>

\* Lines 244-251.
TimedCalendarize ==
    /\ pc = "loop"
    /\ daily_rows # <<>>
    /\ equity_df' = EquityOn(BDateRangeOf(MinDate(daily_rows), MaxDate(daily_rows)),
                             daily_rows)
    /\ pm' = compute_daily_metrics([i \in 1..Len(equity_df') |-> equity_df'[i].ret])
    /\ pc' = "sector"
    /\ UNCHANGED <<d, g, daily_rows, picks_rows, sec_df, sector_stats, disk, otherVars>>

\* Lines 262-283; picks_rows is not empty after a day of the loop.
TimedSectorAggregate ==
    /\ pc = "sector"
    /\ IF equity_df = <<>>
       THEN /\ pc' = "aborted"
            /\ UNCHANGED <<sec_df, sector_stats>>
       ELSE /\ pc' = "rank"
            /\ sec_df' = SecDf(picks_rows,
                               BDateRangeOf(MinDate(equity_df), MaxDate(equity_df)))
            /\ sector_stats' = SectorStatsRows(sec_df')
    /\ UNCHANGED <<d, g, daily_rows, picks_rows, equity_df, pm, disk, otherVars>>

NextTimed ==
    \/ TimedNextGroup \/ SelectDay \/ TimedCalendarize
    \/ TimedSectorAggregate \/ RankSectorStats \/ Save

SpecTimed == Init /\ [][NextTimed]_vars

\* The daily rows of a day, whatever their time of day.
DailyOfDay(day) == SelectSeq(daily_rows, LAMBDA r : DayOf(r.date) = day)

\* C22: dates are normalised before the calendar join: the net return of a
\* business day whose rows carry a time of day is on that day's row of the
\* equity curve, and its pick returns are on that day's rows of the sector
\* grid, not replaced by the 0.0 fill.
C22_TimeOfDayKept ==
    pc \in {"rank", "save", "done"} =>
        \A day \in Dates :
            (Weekday(day) < 5 /\ Len(DailyOfDay(day)) = 1) =>
                /\ \E i \in 1..Len(equity_df) :
                      /\ DayOf(equity_df[i].date) = day
                      /\ equity_df[i].ret = DailyOfDay(day)[1].ret
                /\ \A k \in 1..Len(picks_rows) :
                      DayOf(picks_rows[k].date) = day =>
                          \E j \in 1..Len(sec_df) :
                             /\ DayOf(sec_df[j].date) = day
                             /\ sec_df[j].sector = picks_rows[k].sector
                             /\ sec_df[j].sec_ret = picks_rows[k].ret

====
